---- MODULE Spec2Model ----
(***************************************************************************)
(* A model of the Rust solutions of jonmsawyer/uva-online-judge.           *)
(*                                                                         *)
(* Problem 101, "The Blocks Problem": the `Blocks` struct of blocks.rs     *)
(* (fields state, world, a, b) with its public operations new, move_a,     *)
(* pile_a, onto_b, over_b and print, and the private operations they call. *)
(*                                                                         *)
(* Rust vectors are indexed from 0 and TLA+ sequences from 1: the stack    *)
(* with Rust index i is world[i + 1].  Coordinates (i, j) keep the Rust    *)
(* numbering.                                                              *)
(***************************************************************************)
EXTENDS Integers, Sequences, FiniteSets

\* Largest world size passed to Blocks::new in the model.
MaxN == 4

(***************************************************************************)
(* Machine integers.  A u32 argument is kept as two 16-bit limbs so that   *)
(* every value 0 .. 2^32 - 1 is representable; an i32 is an integer in     *)
(* -2^31 .. 2^31 - 1.  Block identifiers stored in `world` are always      *)
(* below the world size and are kept as naturals.                          *)
(***************************************************************************)
Limb == 2^16

HalfLimb == 2^15

\* The u32 with numeric value n, for 0 <= n < 2^31.
U32(n) == [hi |-> n \div Limb, lo |-> n % Limb]

\* `x as i32` for x : u32 (two's complement reinterpretation).
AsI32(u) == IF u.hi >= HalfLimb THEN (u.hi - Limb) * Limb + u.lo
                                ELSE u.hi * Limb + u.lo

\* `x as u32` for x : i32.
AsU32(x) == [hi |-> (x \div Limb) % Limb, lo |-> x % Limb]

\* `x as usize >= n` for x : i32 and n a vector length (sign extension
\* makes a negative x larger than any length).
AsUsizeGE(x, n) == IF x < 0 THEN TRUE ELSE x >= n

\* Option<u32>
None == <<>>

Some(x) == <<x>>

\* The u32 values the callers pass: every block of the largest world, one
\* value just out of range, and the values around the i32 sign boundary.
I32Max == [hi |-> HalfLimb - 1, lo |-> Limb - 1]

I32MaxPlus1 == [hi |-> HalfLimb, lo |-> 0]

U32Max == [hi |-> Limb - 1, lo |-> Limb - 1]

Args == {U32(n) : n \in 0..MaxN} \cup {I32Max, I32MaxPlus1, U32Max}

VARIABLES
    inst,      \* "None" before Blocks::new, then its result: "Ok" or "Err"
    state,     \* Blocks.state : BlockState
    world,     \* Blocks.world : Vec<Vec<u32>>
    a,         \* Blocks.a : Option<u32>
    b,         \* Blocks.b : Option<u32>
    panic,     \* TRUE once an operation has panicked
    out,       \* what the last public call wrote to stdout
    elements,  \* the argument of the Blocks::new call that returned Ok
    last       \* the last public call: its name and argument, the value of
               \* inst (was) and of the Blocks (pre) before it, and whether
               \* it is a print that follows a print (again)

\* Command::parse (command.rs) and the Robot session (robot.rs).
VARIABLES
    input,     \* the line handed to Command::parse / read by the Robot
    command,   \* the Command returned by Command::parse for `input`
    pc,        \* where the Robot session is: "setup", "loop" or "done"
    nread,     \* the number of lines the session has read
    eof,       \* TRUE once the input stream has ended
    dumps,     \* the number of dumps the session has written
    arm        \* the arm of main_loop's match taken for the last line

\* The 3n + 1 problem (problem 100, lib.rs).
VARIABLES
    config,    \* the Config handed to max_cycles
    for_n,     \* max_cycles: the `n` of `for n in min..=max`
    result,    \* max_cycles: result (usize)
    cycles_n,  \* cycles: its argument `mut n`
    cycle_vec, \* cycles: cycle_vec, and the vector it returned
    ret        \* the tuple returned by max_cycles, <<>> before it returns

\* Ecological Bin Packing (problem 102, lib.rs).
VARIABLES
    bins       \* the Bins made by Bins::new for the last line

\* Stacking Boxes (problem 103, boxes.rs).
VARIABLES
    box1,      \* three Box_ values (their box_ vectors)
    box2,
    box3,
    cmps       \* the results of the comparisons made on them

vars == <<inst, state, world, a, b, panic, out, elements, last,
          input, command, pc, nread, eof, dumps, arm,
          config, for_n, result, cycles_n, cycle_vec, ret,
          bins, box1, box2, box3, cmps>>

\* The variables of the other programs, which the Blocks programs leave
\* alone.
otherVars == <<config, for_n, result, cycles_n, cycle_vec, ret,
               bins, box1, box2, box3, cmps>>

\* The variables that the calls on a Blocks leave alone.
sessionVars == <<input, command, pc, nread, eof, dumps, arm>>

\* The Blocks instance as a value (`self`).
Self == [state |-> state, world |-> world, a |-> a, b |-> b, panic |-> panic]

(***************************************************************************)
(* Private methods of Blocks.                                              *)
(***************************************************************************)

\* A panic (index out of range, unwrap of None, usize underflow) aborts the
\* operation; the world is left as it was when the panic happened.
Panicked(self) == [self EXCEPT !.panic = TRUE]

\* reset_state that leaves the source block in place.
reset_state_keeps_a(self) == [self EXCEPT !.state = "Init", !.b = None]

\* fn reset_state(&mut self)
reset_state(self) == [self EXCEPT !.state = "Init", !.a = None, !.b = None]

\* fn get_a_and_b(&self) -> (i32, i32)
get_a_and_b(self) ==
    << IF self.a = None THEN -1 ELSE AsI32(self.a[1]),
       IF self.b = None THEN -1 ELSE AsI32(self.b[1]) >>

\* fn same_stack(&self) -> bool
same_stack(self) ==
    LET ab == get_a_and_b(self)
    IN  \E i \in 1..Len(self.world) :
            /\ \E p \in 1..Len(self.world[i]) : U32(self.world[i][p]) = AsU32(ab[1])
            /\ \E q \in 1..Len(self.world[i]) : U32(self.world[i][q]) = AsU32(ab[2])

\* parameters_invalid without rule 4 (the same-stack check).
parameters_invalid_no_same_stack(self) ==
    LET ab == get_a_and_b(self)
    IN  \/ ab[1] = ab[2]
        \/ ab[1] < 0
        \/ ab[2] < 0
        \/ AsUsizeGE(ab[1], Len(self.world))
        \/ AsUsizeGE(ab[2], Len(self.world))

\* fn parameters_invalid(&self) -> bool
parameters_invalid(self) ==
    LET ab == get_a_and_b(self)
    IN  IF \/ ab[1] = ab[2]
           \/ ab[1] < 0
           \/ ab[2] < 0
           \/ AsUsizeGE(ab[1], Len(self.world))
           \/ AsUsizeGE(ab[2], Len(self.world))
        THEN TRUE
        ELSE same_stack(self)

\* fn where_is(&self, block: i32) -> (i32, i32): the first stack, and the
\* first position in it, that holds `block`; (-1, -1) when there is none.
where_is(self, block) ==
    IF block < 0 THEN <<-1, -1>>
    ELSE LET hits == { i \in 1..Len(self.world) :
                         \E j \in 1..Len(self.world[i]) :
                             U32(self.world[i][j]) = AsU32(block) }
         IN  IF hits = {} THEN <<-1, -1>>
             ELSE LET i == CHOOSE h \in hits : \A g \in hits : h <= g
                      j == CHOOSE p \in 1..Len(self.world[i]) :
                              /\ U32(self.world[i][p]) = AsU32(block)
                              /\ \A q \in 1..(p - 1) :
                                     U32(self.world[i][q]) # AsU32(block)
                  IN  <<i - 1, j - 1>>

\* Vec::pop on stack i, and Vec::push of x on stack i.
Pop(w, i) == [w EXCEPT ![i + 1] = SubSeq(@, 1, Len(@) - 1)]

Push(w, i, x) == [w EXCEPT ![i + 1] = Append(@, x)]

\* The unpile loop with `self.world.push(vec![x])` for the push: the block
\* gets a new stack at the end of the world instead of its own.
RECURSIVE PopHome_new_stack(_, _, _)
PopHome_new_stack(self, i, cnt) ==
    IF cnt = 0 THEN self
    ELSE IF Len(self.world[i + 1]) = 0 THEN Panicked(self)
    ELSE LET x  == self.world[i + 1][Len(self.world[i + 1])]
             w1 == Pop(self.world, i)
         IN  PopHome_new_stack([self EXCEPT !.world = Append(w1, <<x>>)], i, cnt - 1)

\* The loop
\*     for _ in 0..cnt { let x = self.world[i].pop().unwrap();
\*                       self.world[x].push(x); }
\* which returns the top cnt blocks of stack i to their own stacks.
RECURSIVE PopHome(_, _, _)
PopHome(self, i, cnt) ==
    IF cnt = 0 THEN self
    ELSE IF Len(self.world[i + 1]) = 0 THEN Panicked(self)
    ELSE LET x  == self.world[i + 1][Len(self.world[i + 1])]
             w1 == Pop(self.world, i)
         IN  IF x >= Len(w1) THEN Panicked([self EXCEPT !.world = w1])
             ELSE PopHome([self EXCEPT !.world = Push(w1, x, x)], i, cnt - 1)

\* The pile's removal loop left out: the pile stays on its old stack.
PopDrop_forgotten(self, i, cnt) == self

\* The loop
\*     for _ in 0..cnt { self.world[i].pop().unwrap(); }
RECURSIVE PopDrop(_, _, _)
PopDrop(self, i, cnt) ==
    IF cnt = 0 THEN self
    ELSE IF Len(self.world[i + 1]) = 0 THEN Panicked(self)
    ELSE PopDrop([self EXCEPT !.world = Pop(self.world, i)], i, cnt - 1)

\* `self.world[i as usize]` is in range and `split_at(j as usize)` accepts j.
CoordOk(self, i, j) ==
    /\ i >= 0 /\ i < Len(self.world)
    /\ j >= 0 /\ j <= Len(self.world[i + 1])

\* The length of the right half of `self.world[i].split_at(j)`.
RightLen(self, i, j) == Len(self.world[i + 1]) - j

\* The unpile count without the `- 1`: the pivot is unpiled too.
UnpileCount_with_pivot(self, i, j) == RightLen(self, i, j)

\* `right.len() - 1`: the number of blocks above the pivot at (i, j).  A
\* negative result stands for the usize underflow, which panics.
UnpileCount(self, i, j) == RightLen(self, i, j) - 1

\* The pile collected by popping: top to bottom instead of bottom to top.
right_a_vec_reversed(self, i, j) ==
    [p \in 1..(Len(self.world[i + 1]) - j) |->
        self.world[i + 1][Len(self.world[i + 1]) + 1 - p]]

\* The copy `right_a_vec` of the right half of `self.world[i].split_at(j)`:
\* block `a` and the blocks above it, bottom to top.
right_a_vec(self, i, j) == SubSeq(self.world[i + 1], j + 1, Len(self.world[i + 1]))

\* The top block of stack i.
Top(w, i) == w[i + 1][Len(w[i + 1])]

\* fn move_a_onto_b(&mut self)
move_a_onto_b(self) ==
    LET ab == get_a_and_b(self)
    IN  IF parameters_invalid(self) THEN reset_state(self)
        ELSE
        LET ij == where_is(self, ab[1])
            kl == where_is(self, ab[2])
            i  == ij[1]
            j  == ij[2]
            k  == kl[1]
            l  == kl[2]
        IN  IF ~CoordOk(self, i, j) \/ UnpileCount(self, i, j) < 0
            THEN Panicked(self)
            ELSE
            LET s1 == PopHome(self, i, UnpileCount(self, i, j))
            IN  IF s1.panic THEN s1
                ELSE IF Len(s1.world[i + 1]) = 0 THEN Panicked(s1)
                ELSE
                LET block_a == Top(s1.world, i)
                    s2 == [s1 EXCEPT !.world = Pop(s1.world, i)]
                IN  IF ~CoordOk(s2, k, l) \/ UnpileCount(s2, k, l) < 0
                    THEN Panicked(s2)
                    ELSE
                    LET s3 == PopHome(s2, k, UnpileCount(s2, k, l))
                    IN  IF s3.panic THEN s3
                        ELSE [s3 EXCEPT !.world = Push(s3.world, k, block_a)]

\* fn pile_a_onto_b(&mut self)
pile_a_onto_b(self) ==
    LET ab == get_a_and_b(self)
    IN  IF parameters_invalid(self) THEN reset_state(self)
        ELSE
        LET ij == where_is(self, ab[1])
            kl == where_is(self, ab[2])
            i  == ij[1]
            j  == ij[2]
            k  == kl[1]
            l  == kl[2]
        IN  IF ~CoordOk(self, k, l) \/ UnpileCount(self, k, l) < 0
            THEN Panicked(self)
            ELSE
            LET s1 == PopHome(self, k, UnpileCount(self, k, l))
            IN  IF s1.panic THEN s1
                ELSE IF ~CoordOk(s1, i, j) THEN Panicked(s1)
                ELSE
                LET rav == right_a_vec(s1, i, j)
                    s2  == PopDrop(s1, i, Len(rav))
                IN  IF s2.panic THEN s2
                    ELSE [s2 EXCEPT !.world[k + 1] = @ \o rav]

\* move_a_over_b doing what `onto` does: the blocks above b are unpiled too.
move_a_over_b_as_onto(self) == move_a_onto_b(self)

\* fn move_a_over_b(&mut self)
move_a_over_b(self) ==
    LET ab == get_a_and_b(self)
    IN  IF parameters_invalid(self) THEN reset_state(self)
        ELSE
        LET ij == where_is(self, ab[1])
            kl == where_is(self, ab[2])
            i  == ij[1]
            j  == ij[2]
            k  == kl[1]
        IN  IF ~CoordOk(self, i, j) \/ UnpileCount(self, i, j) < 0
            THEN Panicked(self)
            ELSE
            LET s1 == PopHome(self, i, UnpileCount(self, i, j))
            IN  IF s1.panic THEN s1
                ELSE IF Len(s1.world[i + 1]) = 0 THEN Panicked(s1)
                ELSE
                LET block_a == Top(s1.world, i)
                    s2 == [s1 EXCEPT !.world = Pop(s1.world, i)]
                IN  IF k < 0 \/ k >= Len(s2.world) THEN Panicked(s2)
                    ELSE [s2 EXCEPT !.world = Push(s2.world, k, block_a)]

\* pile_a_over_b without the parameters_invalid early return.
pile_a_over_b_unchecked(self) ==
    LET ab == get_a_and_b(self)
        ij == where_is(self, ab[1])
        kl == where_is(self, ab[2])
        i  == ij[1]
        j  == ij[2]
        k  == kl[1]
    IN  IF ~CoordOk(self, i, j) THEN Panicked(self)
        ELSE
        LET rav == right_a_vec(self, i, j)
            s1  == PopDrop(self, i, Len(rav))
        IN  IF s1.panic THEN s1
            ELSE IF k < 0 \/ k >= Len(s1.world) THEN Panicked(s1)
            ELSE [s1 EXCEPT !.world[k + 1] = @ \o rav]

\* pile_a_over_b doing what `onto` does: the blocks above b are unpiled.
pile_a_over_b_as_onto(self) == pile_a_onto_b(self)

\* fn pile_a_over_b(&mut self)
pile_a_over_b(self) ==
    LET ab == get_a_and_b(self)
    IN  IF parameters_invalid(self) THEN reset_state(self)
        ELSE
        LET ij == where_is(self, ab[1])
            kl == where_is(self, ab[2])
            i  == ij[1]
            j  == ij[2]
            k  == kl[1]
        IN  IF ~CoordOk(self, i, j) THEN Panicked(self)
            ELSE
            LET rav == right_a_vec(self, i, j)
                s1  == PopDrop(self, i, Len(rav))
            IN  IF s1.panic THEN s1
                ELSE IF k < 0 \/ k >= Len(s1.world) THEN Panicked(s1)
                ELSE [s1 EXCEPT !.world[k + 1] = @ \o rav]

(***************************************************************************)
(* Public methods of Blocks.                                               *)
(***************************************************************************)

\* The numeric value of a u32 below 2^31.
U32Val(u) == u.hi * Limb + u.lo

\* new with the range `1..=elements`: stack i starts with block i + 1.
new_from_one(n) ==
    IF U32Val(n) < 1
    THEN [ok |-> FALSE,
          blocks |-> [state |-> "Init", world |-> <<>>, a |-> None, b |-> None,
                      panic |-> FALSE]]
    ELSE [ok |-> TRUE,
          blocks |-> [state |-> "Init",
                      world |-> [x \in 1..U32Val(n) |-> <<x>>],
                      a |-> None, b |-> None, panic |-> FALSE]]

\* pub fn new(elements: u32) -> Result<Blocks, String>
new(n) ==
    IF U32Val(n) < 1
    THEN [ok |-> FALSE,
          blocks |-> [state |-> "Init", world |-> <<>>, a |-> None, b |-> None,
                      panic |-> FALSE]]
    ELSE [ok |-> TRUE,
          blocks |-> [state |-> "Init",
                      world |-> [x \in 1..U32Val(n) |-> <<x - 1>>],
                      a |-> None, b |-> None, panic |-> FALSE]]

\* move_a that starts the new operation whatever the state.
move_a_restart(self, x) == [self EXCEPT !.state = "Move", !.a = Some(x), !.b = None]

\* pub fn move_a(&mut self, a: u32)
move_a(self, x) ==
    IF self.state = "Init"
    THEN [self EXCEPT !.state = "Move", !.a = Some(x), !.b = None]
    ELSE reset_state(self)

\* pub fn pile_a(&mut self, a: u32)
pile_a(self, x) ==
    IF self.state = "Init"
    THEN [self EXCEPT !.state = "Pile", !.a = Some(x), !.b = None]
    ELSE reset_state(self)

\* The `self.reset_state()` that follows the operation in onto_b and over_b;
\* after a panic the rest of the caller is skipped.
Then(s) == IF s.panic THEN s ELSE reset_state(s)

\* onto_b without the `self.reset_state()` that follows the operation.
onto_b_keeps_pending(self, y) ==
    CASE self.state = "Init" -> reset_state(self)
      [] self.state = "Move" -> move_a_onto_b([self EXCEPT !.b = Some(y)])
      [] self.state = "Pile" -> pile_a_onto_b([self EXCEPT !.b = Some(y)])

\* pub fn onto_b(&mut self, b: u32)
onto_b(self, y) ==
    CASE self.state = "Init" -> reset_state(self)
      [] self.state = "Move" ->
            Then(move_a_onto_b([self EXCEPT !.b = Some(y)]))
      [] self.state = "Pile" ->
            Then(pile_a_onto_b([self EXCEPT !.b = Some(y)]))

\* pub fn over_b(&mut self, b: u32)
over_b(self, y) ==
    CASE self.state = "Init" -> reset_state(self)
      [] self.state = "Move" ->
            Then(move_a_over_b([self EXCEPT !.b = Some(y)]))
      [] self.state = "Pile" ->
            Then(pile_a_over_b([self EXCEPT !.b = Some(y)]))

\* print with `if vec.is_empty() { continue; }`: empty stacks get no line.
print_skip_empty(self) ==
    SelectSeq([i \in 1..Len(self.world) |-> <<i - 1, self.world[i]>>],
              LAMBDA e : e[2] # <<>>)

\* pub fn print(&self): one line per stack, "<index>:" followed by the
\* blocks of the stack from bottom to top.
print(self) == [i \in 1..Len(self.world) |-> <<i - 1, self.world[i]>>]

(***************************************************************************)
(* Command::parse (command.rs).  A line is a sequence of characters; the   *)
(* string functions of the standard library that parse calls are computed  *)
(* on it character by character.                                           *)
(***************************************************************************)

\* char::is_whitespace, for the characters of the model's lines.
IsWhitespace(c) == c \in {" ", "\t", "\n", "\r"}

UpperCase == <<"A", "B", "C", "D", "E", "F", "G", "H", "I", "J", "K", "L", "M",
               "N", "O", "P", "Q", "R", "S", "T", "U", "V", "W", "X", "Y", "Z">>

LowerCase == <<"a", "b", "c", "d", "e", "f", "g", "h", "i", "j", "k", "l", "m",
               "n", "o", "p", "q", "r", "s", "t", "u", "v", "w", "x", "y", "z">>

\* str::to_lowercase
to_lowercase(str) ==
    [p \in 1..Len(str) |->
        IF \E k \in 1..26 : UpperCase[k] = str[p]
        THEN LowerCase[CHOOSE k \in 1..26 : UpperCase[k] = str[p]]
        ELSE str[p]]

\* str::trim
trim(str) ==
    LET keep == {p \in 1..Len(str) : ~IsWhitespace(str[p])}
    IN  IF keep = {} THEN <<>>
        ELSE SubSeq(str, CHOOSE p \in keep : \A q \in keep : p <= q,
                         CHOOSE p \in keep : \A q \in keep : p >= q)

\* str::split_whitespace, collected: the maximal runs of non-whitespace
\* characters, in order.
RECURSIVE split_whitespace(_)
split_whitespace(str) ==
    IF str = <<>> THEN <<>>
    ELSE IF IsWhitespace(str[1]) THEN split_whitespace(Tail(str))
    ELSE LET stops == {p \in 1..Len(str) : IsWhitespace(str[p])}
             end   == IF stops = {} THEN Len(str) + 1
                      ELSE CHOOSE p \in stops : \A q \in stops : p <= q
         IN  <<SubSeq(str, 1, end - 1)>>
                 \o split_whitespace(SubSeq(str, end, Len(str)))

Digits == <<"0", "1", "2", "3", "4", "5", "6", "7", "8", "9">>

IsDigit(c) == \E d \in 1..10 : Digits[d] = c

DigitVal(c) == (CHOOSE d \in 1..10 : Digits[d] = c) - 1

\* The digit loop of u32::from_str: acc = acc * 10 + digit with checked
\* arithmetic, on the two limbs of acc.
RECURSIVE parse_digits(_, _)
parse_digits(str, acc) ==
    IF str = <<>> THEN [ok |-> TRUE, val |-> acc]
    ELSE IF ~IsDigit(str[1]) THEN [ok |-> FALSE, val |-> acc]
    ELSE LET lo == acc.lo * 10 + DigitVal(str[1])
             hi == acc.hi * 10 + lo \div Limb
         IN  IF hi >= Limb THEN [ok |-> FALSE, val |-> acc]
             ELSE parse_digits(Tail(str), [hi |-> hi, lo |-> lo % Limb])

\* str::parse::<u32>: an optional "+", then one or more decimal digits,
\* with a value of at most 2^32 - 1.
parse_u32(str) ==
    LET digits == IF str # <<>> /\ str[1] = "+" THEN Tail(str) ELSE str
    IN  IF digits = <<>> THEN [ok |-> FALSE, val |-> U32(0)]
        ELSE parse_digits(digits, U32(0))

\* The words that parse compares with.
quit_ == <<"q", "u", "i", "t">>

q_ == <<"q">>

print_ == <<"p", "r", "i", "n", "t">>

p_ == <<"p">>

move_ == <<"m", "o", "v", "e">>

pile_ == <<"p", "i", "l", "e">>

onto_ == <<"o", "n", "t", "o">>

over_ == <<"o", "v", "e", "r">>

\* String::new() and the three format! messages of parse (the back quotes
\* around {} are left out).
NoMsg == [text |-> "", n |-> 0, tok |-> <<>>]

\* The count message formatted as the empty string.
CountMsg_empty(n) == [text |-> "", n |-> n, tok |-> <<>>]

CountMsg(n) == [text |-> "Error! Expected 4 input parameters, got {}",
                n |-> n, tok |-> <<>>]

CommandMsg(tok) == [text |-> "Error! {} is not a valid command.",
                    n |-> 0, tok |-> tok]

IntegerMsg(tok) == [text |-> "Error! {} is not a valid positive integer.",
                    n |-> 0, tok |-> tok]

\* The Command struct.
Command(error_msg, st, from, to, ca, cb) ==
    [error_msg |-> error_msg, state |-> st, from |-> from, to |-> to,
     a |-> ca, b |-> cb]

\* `match parts[0]` without the "pile" arm.
from_of_no_pile(verb) == IF verb = move_ THEN "Move" ELSE "Init"

\* `match parts[0] { "move" => ..., "pile" => ..., _ => {} }`
from_of(verb) ==
    IF verb = move_ THEN "Move"
    ELSE IF verb = pile_ THEN "Pile"
    ELSE "Init"

\* `match parts[2] { "over" => ..., "onto" => ..., _ => {} }`
to_of(prep) ==
    IF prep = over_ THEN "Over"
    ELSE IF prep = onto_ THEN "Onto"
    ELSE "Init"

\* parse from the parsing of parts[1] on: the two numbers, then the verb
\* and the preposition.
parse_numbers(parts) ==
    LET na == parse_u32(parts[2])
        nb == parse_u32(parts[4])
    IN  IF ~na.ok
        THEN Command(IntegerMsg(parts[2]), "Error", "Init", "Init", -1, -1)
        ELSE IF ~nb.ok
        THEN Command(IntegerMsg(parts[4]), "Error", "Init", "Init",
                     AsI32(na.val), -1)
        ELSE Command(NoMsg, "Do", from_of(parts[1]), to_of(parts[3]),
                     AsI32(na.val), AsI32(nb.val))

\* The checks in the order preposition, verb.
parse_parts_prep_first(parts) ==
    IF Len(parts) # 4
    THEN Command(CountMsg(Len(parts)), "Error", "Init", "Init", -1, -1)
    ELSE IF parts[3] # over_ /\ parts[3] # onto_
    THEN Command(CommandMsg(parts[3]), "Error", "Init", "Init", -1, -1)
    ELSE IF parts[1] # move_ /\ parts[1] # pile_
    THEN Command(CommandMsg(parts[1]), "Error", "Init", "Init", -1, -1)
    ELSE parse_numbers(parts)

\* parse from the token count check on.
parse_parts(parts) ==
    IF Len(parts) # 4
    THEN Command(CountMsg(Len(parts)), "Error", "Init", "Init", -1, -1)
    ELSE IF parts[1] # move_ /\ parts[1] # pile_
    THEN Command(CommandMsg(parts[1]), "Error", "Init", "Init", -1, -1)
    ELSE IF parts[3] # over_ /\ parts[3] # onto_
    THEN Command(CommandMsg(parts[3]), "Error", "Init", "Init", -1, -1)
    ELSE parse_numbers(parts)

\* pub fn parse(input: &String) -> Command
parse(line) ==
    LET str == to_lowercase(trim(line))
    IN  IF str = quit_ \/ str = q_
        THEN Command(NoMsg, "Quit", "Init", "Init", -1, -1)
        ELSE IF str = print_ \/ str = p_
        THEN Command(NoMsg, "Print", "Init", "Init", -1, -1)
        ELSE parse_parts(split_whitespace(str))

\* The arm of `match command.state` (and of the nested matches on
\* command.from and command.to) that main_loop takes for a command.
main_loop_arm(cmd) ==
    CASE cmd.state = "Init"  -> "Init"
      [] cmd.state = "Print" -> "Print"
      [] cmd.state = "Quit"  -> "Quit"
      [] cmd.state = "Error" -> "Error"
      [] cmd.state = "Do" ->
            (CASE cmd.from = "Move" ->
                    (CASE cmd.to = "Over" -> "MoveOver"
                       [] cmd.to = "Onto" -> "MoveOnto"
                       [] OTHER -> "CatchAllTo")
               [] cmd.from = "Pile" ->
                    (CASE cmd.to = "Over" -> "PileOver"
                       [] cmd.to = "Onto" -> "PileOnto"
                       [] OTHER -> "CatchAllTo")
               [] OTHER -> "CatchAllFrom")
      [] OTHER -> "CatchAllState"

\* No line has been parsed yet.
NoCommand == Command(NoMsg, "Init", "Init", "Init", -1, -1)

(***************************************************************************)
(* The state machine: a caller that creates a Blocks and then calls its    *)
(* public methods with arbitrary arguments.                                *)
(***************************************************************************)
NoBlocks == [state |-> "Init", world |-> <<>>, a |-> None, b |-> None,
             panic |-> FALSE]

\* No Blocks has been created.
BlocksInit ==
    /\ inst = "None"
    /\ state = "Init"
    /\ world = <<>>
    /\ a = None
    /\ b = None
    /\ panic = FALSE
    /\ out = <<>>
    /\ elements = 0
    /\ last = [op |-> "none", arg |-> U32(0), was |-> "None", again |-> FALSE,
             pre |-> NoBlocks]

\* max_cycles has not been entered: its locals and those of cycles.
CyclesIdle ==
    /\ for_n = U32(0)
    /\ result = 0
    /\ cycles_n = U32(0)
    /\ cycle_vec = <<>>
    /\ ret = <<>>

\* No Bins has been made.
BinsIdle == bins = <<>>

\* No Box_ has been compared.
BoxesIdle ==
    /\ box1 = <<>>
    /\ box2 = <<>>
    /\ box3 = <<>>
    /\ cmps = <<>>

\* None of the other programs has started.
OtherInit ==
    /\ config = [inputs |-> <<>>, i |-> U32(0), j |-> U32(0)]
    /\ CyclesIdle
    /\ BinsIdle
    /\ BoxesIdle

\* No line has been read.
SessionInit ==
    /\ input = <<>>
    /\ command = NoCommand
    /\ nread = 0
    /\ eof = FALSE
    /\ dumps = 0
    /\ arm = "None"

Init ==
    /\ BlocksInit
    /\ SessionInit
    /\ OtherInit
    /\ pc = "api"

Set(s) ==
    \E self \in {s} :
        /\ state' = self.state
        /\ world' = self.world
        /\ a' = self.a
        /\ b' = self.b
        /\ panic' = self.panic

New(n) ==
    /\ inst # "Ok"
    /\ LET r == new(n)
       IN  /\ inst' = IF r.ok THEN "Ok" ELSE "Err"
           /\ Set(r.blocks)
           /\ elements' = IF r.ok THEN U32Val(n) ELSE elements
    /\ last' = [op |-> "new", arg |-> n, was |-> inst, again |-> FALSE,
                pre |-> Self]
    /\ out' = <<>>
    /\ UNCHANGED sessionVars
    /\ UNCHANGED otherVars

Live == inst = "Ok" /\ ~panic

MoveA(x) ==
    /\ Live
    /\ Set(move_a(Self, x))
    /\ last' = [op |-> "move_a", arg |-> x, was |-> inst, again |-> FALSE,
                pre |-> Self]
    /\ out' = <<>>
    /\ UNCHANGED <<inst, elements>>
    /\ UNCHANGED sessionVars
    /\ UNCHANGED otherVars

PileA(x) ==
    /\ Live
    /\ Set(pile_a(Self, x))
    /\ last' = [op |-> "pile_a", arg |-> x, was |-> inst, again |-> FALSE,
                pre |-> Self]
    /\ out' = <<>>
    /\ UNCHANGED <<inst, elements>>
    /\ UNCHANGED sessionVars
    /\ UNCHANGED otherVars

OntoB(y) ==
    /\ Live
    /\ Set(onto_b(Self, y))
    /\ last' = [op |-> "onto_b", arg |-> y, was |-> inst, again |-> FALSE,
                pre |-> Self]
    /\ out' = <<>>
    /\ UNCHANGED <<inst, elements>>
    /\ UNCHANGED sessionVars
    /\ UNCHANGED otherVars

OverB(y) ==
    /\ Live
    /\ Set(over_b(Self, y))
    /\ last' = [op |-> "over_b", arg |-> y, was |-> inst, again |-> FALSE,
                pre |-> Self]
    /\ out' = <<>>
    /\ UNCHANGED <<inst, elements>>
    /\ UNCHANGED sessionVars
    /\ UNCHANGED otherVars

\* print over `drain(..)`: the stacks are emptied while they are written.
PrintWorld_draining ==
    /\ Live
    /\ out' = print(Self)
    /\ world' = [i \in 1..Len(world) |-> <<>>]
    /\ last' = [op |-> "print", arg |-> U32(0), was |-> inst,
                again |-> (last.op = "print"), pre |-> Self]
    /\ UNCHANGED <<inst, state, a, b, panic, elements>>
    /\ UNCHANGED sessionVars
    /\ UNCHANGED otherVars

PrintWorld ==
    /\ Live
    /\ out' = print(Self)
    /\ last' = [op |-> "print", arg |-> U32(0), was |-> inst,
                again |-> (last.op = "print"), pre |-> Self]
    /\ UNCHANGED <<inst, state, world, a, b, panic, elements>>
    /\ UNCHANGED sessionVars
    /\ UNCHANGED otherVars

Next ==
    \/ \E n \in {U32(m) : m \in 0..MaxN} : New(n)
    \/ \E x \in Args : MoveA(x)
    \/ \E x \in Args : PileA(x)
    \/ \E y \in Args : OntoB(y)
    \/ \E y \in Args : OverB(y)
    \/ PrintWorld

Spec == Init /\ [][Next]_vars

(***************************************************************************)
(* Command::parse applied to one line.                                     *)
(***************************************************************************)

\* The lines handed to parse are built from these tokens.
Verbs == { move_, pile_, <<"M", "O", "V", "E">>, <<"P", "i", "l", "e">>,
           <<"a", "s", "d", "f">>, quit_ }

Preps == { onto_, over_, <<"O", "N", "T", "O">>, <<"q", "w", "e", "r">> }

Numbers == { <<"0">>, <<"1">>, <<"3">>, <<"2", "0", "0">>, <<"+", "2">>,
             <<"-", "1">>, <<"1", "a">>,
             <<"2", "1", "4", "7", "4", "8", "3", "6", "4", "7">>,
             <<"2", "1", "4", "7", "4", "8", "3", "6", "4", "8">>,
             <<"4", "2", "9", "4", "9", "6", "7", "2", "9", "5">>,
             <<"4", "2", "9", "4", "9", "6", "7", "2", "9", "6">> }

\* The tokens of a sequence, separated by sep.
RECURSIVE Join(_, _)
Join(toks, sep) ==
    IF toks = <<>> THEN <<>>
    ELSE IF Len(toks) = 1 THEN toks[1]
    ELSE toks[1] \o sep \o Join(Tail(toks), sep)

\* Lines of four tokens, ended as the tests of command.rs end them.
FourTokenLines ==
    { Join(<<v, x, p, y>>, <<" ">>) \o <<"\r", "\n">> :
        v \in Verbs, x \in Numbers, p \in Preps, y \in Numbers }

\* The session-control words in several spellings, with and without
\* surrounding whitespace, and lines with a wrong number of tokens.
OtherLines ==
    { <<>>, <<"\n">>, <<" ", "\t", "\r", "\n">>,
      quit_, q_, print_, p_,
      <<"Q">>, <<"Q", "U", "I", "T">>, <<"Q", "u", "i", "t", "\r", "\n">>,
      <<"P">>, <<"P", "R", "I", "N", "T", "\n">>,
      <<" ", "q", " ", "\n">>, <<"\t", "p", "r", "i", "n", "t", " ">>,
      Join(<<quit_, quit_>>, <<" ">>),
      Join(<<p_, p_>>, <<" ">>),
      Join(<<move_, <<"1">>, onto_>>, <<" ">>),
      Join(<<move_, <<"1">>, onto_, <<"3">>, <<"r", "i", "g", "h", "t">>,
             <<"n", "o", "w">>>>, <<" ">>) \o <<"\r", "\n">>,
      Join(<<<<"x">>, <<"-", "1">>, <<"y">>, <<"1", "a">>, <<"z">>>>, <<" ">>),
      <<" ", " ">> \o Join(<<pile_, <<"2">>, over_, <<"0">>>>, <<"\t", " ">>)
          \o <<" ", "\n">>,
      <<"m", "o", "v", "e", "1", " ", "o", "n", "t", "o", " ", "3">> }

ParseLines == FourTokenLines \cup OtherLines

InitParse ==
    /\ BlocksInit
    /\ input \in ParseLines
    /\ OtherInit
    /\ command = NoCommand
    /\ nread = 0
    /\ eof = FALSE
    /\ dumps = 0
    /\ arm = "None"
    /\ pc = "parse"

\* Command::parse(&input), and the arm of main_loop's match it selects.
Parse ==
    /\ pc = "parse"
    /\ command' = parse(input)
    /\ arm' = main_loop_arm(parse(input))
    /\ pc' = "parsed"
    /\ UNCHANGED <<inst, state, world, a, b, panic, out, elements, last,
                   input, nread, eof, dumps>>
    /\ UNCHANGED otherVars

NextParse == Parse

SpecParse == InitParse /\ [][NextParse]_vars

(***************************************************************************)
(* The Robot session (robot.rs): Robot::run reads the size of the world,   *)
(* then Robot::main_loop reads and executes one line per iteration.        *)
(***************************************************************************)

\* The largest number of lines a session reads before its input ends.
MaxLines == 5

\* pub fn new(num_blocks: u32) -> Robot
robot_new(n) ==
    IF new(n).ok THEN new(n).blocks
    ELSE [state |-> "Init", world |-> <<<<0>>>>, a |-> None, b |-> None,
          panic |-> FALSE]

\* The body of the loop of Robot::run with the `num_blocks == 0` test left
\* out.
setup_step_no_zero_test(line) ==
    LET num == parse_u32(trim(line))
    IN  IF num.ok THEN "Start"
        ELSE IF trim(line) = q_ \/ trim(line) = quit_ THEN "SetupQuit"
        ELSE "SizeInvalid"

\* The body of the loop of Robot::run, after the read: the branch taken
\* for the setup line.
setup_step(line) ==
    LET num == parse_u32(trim(line))
    IN  IF num.ok
        THEN IF num.val = U32(0) THEN "SizeZero" ELSE "Start"
        ELSE IF trim(line) = q_ \/ trim(line) = quit_ THEN "SetupQuit"
        ELSE "SizeInvalid"

\* The result of one arm of main_loop's match: the Blocks, what was
\* written to stdout, and whether the loop was left.
Arm(self, written, brk) == [blocks |-> self, out |-> written, brk |-> brk]

\* The Quit arm without its `break`.
quit_arm_no_break(self) == Arm(self, print(self), FALSE)

\* `CommandState::Quit => { self.blocks.print(); break; }`
quit_arm(self) == Arm(self, print(self), TRUE)

\* The body of main_loop's loop after Command::parse: the match on
\* command.state, command.from and command.to.
main_loop_step(self, cmd) ==
    LET which == main_loop_arm(cmd)
    IN  CASE which = "Print" -> Arm(self, print(self), FALSE)
          [] which = "Quit"  -> quit_arm(self)
          [] which = "MoveOver" ->
                Arm(over_b(move_a(self, AsU32(cmd.a)), AsU32(cmd.b)), <<>>, FALSE)
          [] which = "MoveOnto" ->
                Arm(onto_b(move_a(self, AsU32(cmd.a)), AsU32(cmd.b)), <<>>, FALSE)
          [] which = "PileOver" ->
                Arm(over_b(pile_a(self, AsU32(cmd.a)), AsU32(cmd.b)), <<>>, FALSE)
          [] which = "PileOnto" ->
                Arm(onto_b(pile_a(self, AsU32(cmd.a)), AsU32(cmd.b)), <<>>, FALSE)
          [] OTHER -> Arm(self, <<>>, FALSE)

\* A line ended by "\n".
Ln(toks) == Join(toks, <<" ">>) \o <<"\n">>

\* The lines a session may read at the setup stage.
SetupLines ==
    { Ln(<<<<"0">>>>), Ln(<<<<"2">>>>), <<" ", "3", "\r", "\n">>,
      Ln(<<<<"a", "b", "c">>>>), Ln(<<<<"-", "1">>>>), <<"\n">>,
      Ln(<<q_>>), Ln(<<quit_>>), Ln(<<<<"Q">>>>), Ln(<<<<"Q", "U", "I", "T">>>>),
      Ln(<<print_>>), Ln(<<move_, <<"0">>, onto_, <<"1">>>>) }

\* The lines a session may read in the instruction loop.
LoopLines ==
    { Ln(<<move_, <<"0">>, onto_, <<"1">>>>),
      Ln(<<move_, <<"1">>, over_, <<"2">>>>),
      Ln(<<move_, <<"2">>, onto_, <<"0">>>>),
      Ln(<<pile_, <<"0">>, onto_, <<"2">>>>),
      Ln(<<pile_, <<"1">>, over_, <<"0">>>>),
      Ln(<<<<"P", "I", "L", "E">>, <<"2">>, <<"O", "v", "e", "r">>, <<"1">>>>),
      Ln(<<move_, <<"1">>, onto_, <<"1">>>>),
      Ln(<<pile_, <<"9">>, over_, <<"0">>>>),
      Ln(<<move_, <<"0">>, over_,
           <<"2", "1", "4", "7", "4", "8", "3", "6", "4", "8">>>>),
      Ln(<<<<"a", "s", "d", "f">>, <<"1">>, onto_, <<"2">>>>),
      Ln(<<move_, <<"-", "1">>, onto_, <<"2">>>>),
      Ln(<<move_, <<"1">>>>),
      <<"\n">>,
      Ln(<<print_>>), Ln(<<<<"P">>>>),
      Ln(<<quit_>>), Ln(<<<<"Q">>>>), Ln(<<<<"2">>>>) }

\* buf.read_line(&mut input): the next line of the input, or nothing (an
\* empty string) when the input has ended.
Reads(lines) ==
    IF eof \/ nread >= MaxLines
    THEN { [line |-> <<>>, eof |-> TRUE, n |-> nread] }
    ELSE { [line |-> l, eof |-> FALSE, n |-> nread + 1] : l \in lines }
             \cup { [line |-> <<>>, eof |-> TRUE, n |-> nread] }

InitRobot ==
    /\ BlocksInit
    /\ SessionInit
    /\ OtherInit
    /\ pc = "setup"

\* One iteration of the loop of Robot::run.
SetupLine(rd) ==
    /\ pc = "setup"
    /\ input' = rd.line
    /\ eof' = rd.eof
    /\ nread' = rd.n
    /\ arm' = setup_step(rd.line)
    /\ command' = NoCommand
    /\ out' = <<>>
    /\ dumps' = dumps
    /\ last' = [op |-> "setup", arg |-> U32(0), was |-> inst, again |-> FALSE,
                pre |-> Self]
    /\ IF setup_step(rd.line) = "Start"
       THEN /\ Set(robot_new(parse_u32(trim(rd.line)).val))
            /\ inst' = "Ok"
            /\ elements' = U32Val(parse_u32(trim(rd.line)).val)
            /\ pc' = "loop"
       ELSE /\ UNCHANGED <<inst, state, world, a, b, panic, elements>>
            /\ pc' = IF setup_step(rd.line) = "SetupQuit" THEN "done" ELSE "setup"
    /\ UNCHANGED otherVars

\* One iteration of the loop of Robot::main_loop.
LoopLine(rd) ==
    /\ pc = "loop"
    /\ ~panic
    /\ input' = rd.line
    /\ eof' = rd.eof
    /\ nread' = rd.n
    /\ command' = parse(rd.line)
    /\ arm' = main_loop_arm(parse(rd.line))
    /\ \E r \in {main_loop_step(Self, parse(rd.line))} :
           /\ Set(r.blocks)
           /\ out' = r.out
           /\ dumps' = IF r.out = <<>> THEN dumps ELSE dumps + 1
           /\ pc' = IF r.brk THEN "done" ELSE "loop"
    /\ last' = [op |-> "line", arg |-> U32(0), was |-> inst, again |-> FALSE,
                pre |-> Self]
    /\ UNCHANGED <<inst, elements>>
    /\ UNCHANGED otherVars

\* `buf.read_line(..)?` fails: run returns the io::Error.
ReadFails ==
    /\ pc \in {"setup", "loop"}
    /\ ~panic
    /\ pc' = "failed"
    /\ UNCHANGED <<inst, state, world, a, b, panic, out, elements, last,
                   input, command, nread, eof, dumps, arm>>
    /\ UNCHANGED otherVars

NextRobot ==
    \/ \E rd \in Reads(SetupLines) : SetupLine(rd)
    \/ \E rd \in Reads(LoopLines) : LoopLine(rd)
    \/ ReadFails

SpecRobot == InitRobot /\ [][NextRobot]_vars

\* The session as it runs: a loop that has not returned goes on to its
\* next iteration.  A read need never fail.
SpecRobotFair ==
    /\ SpecRobot
    /\ WF_vars(\E rd \in Reads(SetupLines) : SetupLine(rd))
    /\ WF_vars(\E rd \in Reads(LoopLines) : LoopLine(rd))

(***************************************************************************)
(* Validation over the whole u32 range (blocks.rs, parameters_invalid).    *)
(* Blocks::new takes any u32; the world of a new Blocks of n elements is   *)
(* the n single-block stacks [0], [1], ..., [n - 1].  For the sizes around *)
(* 2^31 that world is not written out: `elements` holds n as a u32 and the *)
(* operators below compute on the world it stands for.                     *)
(***************************************************************************)

\* u < v for u, v : u32.
ULt(u, v) == u.hi < v.hi \/ (u.hi = v.hi /\ u.lo < v.lo)

\* `x as usize >= self.world.len()` for x : i32 and a new world of n stacks.
AsUsizeGELen(x, n) == IF x < 0 THEN TRUE ELSE ~ULt(U32(x), n)

\* same_stack on the new world of n stacks: stack i holds block i alone.
same_stack_new(n, self) ==
    LET ab == get_a_and_b(self)
    IN  /\ ULt(AsU32(ab[1]), n)
        /\ AsU32(ab[1]) = AsU32(ab[2])

\* parameters_invalid on the new world of n stacks.
parameters_invalid_new(n, self) ==
    LET ab == get_a_and_b(self)
    IN  IF \/ ab[1] = ab[2]
           \/ ab[1] < 0
           \/ ab[2] < 0
           \/ AsUsizeGELen(ab[1], n)
           \/ AsUsizeGELen(ab[2], n)
        THEN TRUE
        ELSE same_stack_new(n, self)

\* Sizes of the world and block identifiers, small and around 2^31.
BigSizes ==
    {U32(1), U32(2), U32(3), I32Max, I32MaxPlus1,
     [hi |-> HalfLimb, lo |-> 2], U32Max}

BigArgs ==
    {U32(0), U32(1), U32(2), I32Max, I32MaxPlus1,
     [hi |-> HalfLimb, lo |-> 1], U32Max}

InitValid ==
    /\ inst = "Ok"
    /\ elements \in BigSizes
    /\ world = <<>>
    /\ state \in {"Move", "Pile"}
    /\ a \in {Some(x) : x \in BigArgs}
    /\ b \in {Some(y) : y \in BigArgs}
    /\ panic = FALSE
    /\ out = <<>>
    /\ last = [op |-> "begin", arg |-> U32(0), was |-> "Ok", again |-> FALSE,
               pre |-> Self]
    /\ SessionInit
    /\ OtherInit
    /\ pc = "valid"

\* The `if self.parameters_invalid()` at the head of the four operations.
Validate ==
    /\ pc = "valid"
    /\ arm' = IF parameters_invalid_new(elements, Self) THEN "Rejected"
                                                        ELSE "Accepted"
    /\ pc' = "validated"
    /\ UNCHANGED <<inst, state, world, a, b, panic, out, elements, last,
                   input, command, nread, eof, dumps>>
    /\ UNCHANGED otherVars

NextValid == Validate

SpecValid == InitValid /\ [][NextValid]_vars

(***************************************************************************)
(* The 3n + 1 problem (problem 100, lib.rs): cycles and max_cycles.        *)
(***************************************************************************)

\* The largest i and j of the small Configs.
MaxIJ == 10

\* The longest cycle_vec that is followed (a cycles call that never
\* reaches 1 pushes for ever).
MaxVec == 250

\* `n % 2 == 0` for n : u32.
IsEven(u) == u.lo % 2 = 0

\* `n /= 2` for n : u32.
Half(u) == [hi |-> u.hi \div 2, lo |-> (u.hi % 2) * HalfLimb + u.lo \div 2]

\* 3n - 1 in the place of 3n + 1.
ThreeNMinusOne(u) ==
    LET lo3 == 3 * u.lo - 1
        hi3 == 3 * u.hi + lo3 \div Limb
    IN  [overflow |-> hi3 >= Limb,
         val |-> [hi |-> hi3 % Limb, lo |-> lo3 % Limb]]

\* `(3 * n) + 1` for n : u32: the wrapped value, and whether the
\* multiplication or the addition overflows.
ThreeNPlusOne(u) ==
    LET lo3 == 3 * u.lo + 1
        hi3 == 3 * u.hi + lo3 \div Limb
    IN  [overflow |-> hi3 >= Limb,
         val |-> [hi |-> hi3 % Limb, lo |-> lo3 % Limb]]

\* The step of `for n in min..=max`.
Succ(u) == IF u.lo = Limb - 1 THEN [hi |-> u.hi + 1, lo |-> 0]
                              ELSE [hi |-> u.hi, lo |-> u.lo + 1]

\* One iteration of the `loop` of cycles on (n, cycle_vec).
cycles_loop(cn, vec) ==
    IF cn = U32(1)
    THEN [n |-> cn, cycle_vec |-> Append(vec, U32(1)), brk |-> TRUE,
          overflow |-> FALSE]
    ELSE IF IsEven(cn)
    THEN [n |-> Half(cn), cycle_vec |-> Append(vec, cn), brk |-> FALSE,
          overflow |-> FALSE]
    ELSE [n |-> ThreeNPlusOne(cn).val, cycle_vec |-> Append(vec, cn),
          brk |-> FALSE, overflow |-> ThreeNPlusOne(cn).overflow]

\* `config.inputs.len() == 0 || (config.i == 0 && config.j == 0)`
invalid_inputs(cfg) ==
    Len(cfg.inputs) = 0 \/ (cfg.i = U32(0) /\ cfg.j = U32(0))

\* `let (min, max) = match config.i < config.j { .. }`
min_max(cfg) == IF ULt(cfg.i, cfg.j) THEN <<cfg.i, cfg.j>> ELSE <<cfg.j, cfg.i>>

\* `cycle_vec.len().max(result)`
LenMax(vec, res) == IF Len(vec) > res THEN Len(vec) ELSE res

\* The i and j of the Configs: the small ones, the examples of the test,
\* and numbers whose cycle leaves the u32 range.
SmallIJ == {U32(k) : k \in 0..MaxIJ} \cup {U32(22)}

BigIJ == {U32(159487), [hi |-> 21845, lo |-> 21845], [hi |-> 43690, lo |-> 43691]}

\* Config.inputs: max_cycles reads only its length; the two tokens are
\* named, not spelled.
ConfigInputs == {<<>>, <<"i", "j">>}

Configs ==
    {[inputs |-> inp, i |-> x, j |-> y] :
        inp \in ConfigInputs, x \in SmallIJ, y \in SmallIJ}
    \cup {[inputs |-> <<"i", "j">>, i |-> x, j |-> x] : x \in BigIJ}

InitCycles ==
    /\ BlocksInit
    /\ SessionInit
    /\ config \in Configs
    /\ CyclesIdle
    /\ BinsIdle
    /\ BoxesIdle
    /\ pc = "max_cycles"

blocksVars == <<inst, state, world, a, b, panic, out, elements, last>>

\* max_cycles up to its first call of cycles, or to its early return.
MaxCycles ==
    /\ pc = "max_cycles"
    /\ IF invalid_inputs(config)
       THEN /\ ret' = <<U32(0), U32(0), U32(0)>>
            /\ pc' = "returned"
            /\ UNCHANGED <<for_n, result, cycles_n, cycle_vec>>
       ELSE /\ result' = 0
            /\ for_n' = min_max(config)[1]
            /\ cycles_n' = min_max(config)[1]
            /\ cycle_vec' = <<>>
            /\ pc' = "cycles"
            /\ ret' = ret
    /\ UNCHANGED <<config, bins, box1, box2, box3, cmps>>
    /\ UNCHANGED blocksVars
    /\ UNCHANGED <<input, command, nread, eof, dumps, arm>>

\* One iteration of the loop of cycles; an overflowing 3n + 1 wraps (a
\* build without overflow checks).
CyclesLoop ==
    /\ pc = "cycles"
    /\ Len(cycle_vec) < MaxVec
    /\ LET r == cycles_loop(cycles_n, cycle_vec)
       IN  /\ cycles_n' = r.n
           /\ cycle_vec' = r.cycle_vec
           /\ pc' = IF r.brk THEN "for" ELSE "cycles"
    /\ UNCHANGED <<config, for_n, result, ret, bins, box1, box2, box3, cmps>>
    /\ UNCHANGED blocksVars
    /\ UNCHANGED <<input, command, nread, eof, dumps, arm>>

\* The iteration of the loop of cycles in which 3n + 1 overflows, in a
\* build with overflow checks: the call panics.
CyclesOverflow ==
    /\ pc = "cycles"
    /\ Len(cycle_vec) < MaxVec
    /\ cycles_loop(cycles_n, cycle_vec).overflow
    /\ pc' = "panicked"
    /\ UNCHANGED <<config, for_n, result, cycles_n, cycle_vec, ret,
                   bins, box1, box2, box3, cmps>>
    /\ UNCHANGED blocksVars
    /\ UNCHANGED <<input, command, nread, eof, dumps, arm>>

\* The rest of the body of the for loop after cycles has returned, and
\* either the next call of cycles or the return of max_cycles.
ForBody ==
    /\ pc = "for"
    /\ result' = LenMax(cycle_vec, result)
    /\ IF for_n = min_max(config)[2]
       THEN /\ ret' = <<config.i, config.j, U32(LenMax(cycle_vec, result))>>
            /\ pc' = "returned"
            /\ UNCHANGED <<for_n, cycles_n, cycle_vec>>
       ELSE /\ for_n' = Succ(for_n)
            /\ cycles_n' = Succ(for_n)
            /\ cycle_vec' = <<>>
            /\ pc' = "cycles"
            /\ ret' = ret
    /\ UNCHANGED <<config, bins, box1, box2, box3, cmps>>
    /\ UNCHANGED blocksVars
    /\ UNCHANGED <<input, command, nread, eof, dumps, arm>>

NextCycles ==
    \/ MaxCycles
    \/ CyclesLoop
    \/ CyclesOverflow
    \/ ForBody

SpecCycles == InitCycles /\ [][NextCycles]_vars

(***************************************************************************)
(* Ecological Bin Packing (problem 102, lib.rs).  A usize is 64 bits wide: *)
(* it is written as four 16-bit limbs, least significant first.  An isize  *)
(* is written as its two's complement bits, so that `as isize` and         *)
(* `as usize` keep the limbs: -1 is the bits of 2^64 - 1 and -2 those of   *)
(* 2^64 - 2.                                                               *)
(***************************************************************************)

\* The usize of a number below 2^31.
W(k) == <<k % Limb, k \div Limb, 0, 0>>

\* x < y for x, y : usize.
WLt(x, y) ==
    \E k \in 1..4 : x[k] < y[k] /\ \A m \in (k + 1)..4 : x[m] = y[m]

\* `x + y` for x, y : usize: the wrapped sum, and whether it overflows.
WAdd(x, y) ==
    LET s1 == x[1] + y[1]
        s2 == x[2] + y[2] + s1 \div Limb
        s3 == x[3] + y[3] + s2 \div Limb
        s4 == x[4] + y[4] + s3 \div Limb
    IN  [overflow |-> s4 >= Limb,
         val |-> <<s1 % Limb, s2 % Limb, s3 % Limb, s4 % Limb>>]

\* The digit loop of usize::from_str: acc = acc * 10 + digit with checked
\* arithmetic, on the four limbs of acc.
RECURSIVE parse_word_digits(_, _)
parse_word_digits(str, acc) ==
    IF str = <<>> THEN [ok |-> TRUE, val |-> acc]
    ELSE IF ~IsDigit(str[1]) THEN [ok |-> FALSE, val |-> acc]
    ELSE LET t1 == acc[1] * 10 + DigitVal(str[1])
             t2 == acc[2] * 10 + t1 \div Limb
             t3 == acc[3] * 10 + t2 \div Limb
             t4 == acc[4] * 10 + t3 \div Limb
         IN  IF t4 >= Limb THEN [ok |-> FALSE, val |-> acc]
             ELSE parse_word_digits(Tail(str),
                      <<t1 % Limb, t2 % Limb, t3 % Limb, t4 % Limb>>)

\* str::parse::<usize>: an optional "+", then one or more decimal digits,
\* with a value of at most 2^64 - 1.
parse_usize(str) ==
    LET digits == IF str # <<>> /\ str[1] = "+" THEN Tail(str) ELSE str
    IN  IF digits = <<>> THEN [ok |-> FALSE, val |-> W(0)]
        ELSE parse_word_digits(digits, W(0))

\* The isize values -1 and -2.
Minus1 == <<Limb - 1, Limb - 1, Limb - 1, Limb - 1>>

Minus2 == <<Limb - 2, Limb - 1, Limb - 1, Limb - 1>>

\* fn parse(input: String) -> (isize, ..., isize)
bins_parse(line) ==
    IF to_lowercase(trim(line)) \in {quit_, q_, <<>>}
    THEN [k \in 1..9 |-> Minus2]
    ELSE LET parts == split_whitespace(line)
         IN  IF Len(parts) # 9 THEN [k \in 1..9 |-> Minus1]
             ELSE [k \in 1..9 |->
                      IF parse_usize(parts[k]).ok
                      THEN parse_usize(parts[k]).val ELSE Minus1]

\* Bins::error(), Bins::quit() and Bins::ok(a, ..., i)
bins_error ==
    [state |-> "Err", bin1 |-> <<W(0), W(0), W(0)>>,
     bin2 |-> <<W(0), W(0), W(0)>>, bin3 |-> <<W(0), W(0), W(0)>>]

bins_quit ==
    [state |-> "Quit", bin1 |-> <<W(0), W(0), W(0)>>,
     bin2 |-> <<W(0), W(0), W(0)>>, bin3 |-> <<W(0), W(0), W(0)>>]

bins_ok(t) ==
    [state |-> "Ok", bin1 |-> <<t[1], t[2], t[3]>>,
     bin2 |-> <<t[4], t[5], t[6]>>, bin3 |-> <<t[7], t[8], t[9]>>]

\* fn new(..) -> Bins, for the tuple that read_line returned with Ok.
bins_new(t) ==
    IF \E k \in 1..9 : t[k] = Minus1 THEN bins_error
    ELSE IF \E k \in 1..9 : t[k] = Minus2 THEN bins_quit
    ELSE bins_ok(t)

\* `x1 + x2 + x3 + x4 + x5 + x6`, from left to right.
Sum6(xs) ==
    LET s2 == WAdd(xs[1], xs[2])
        s3 == WAdd(s2.val, xs[3])
        s4 == WAdd(s3.val, xs[4])
        s5 == WAdd(s4.val, xs[5])
        s6 == WAdd(s5.val, xs[6])
    IN  [overflow |-> s2.overflow \/ s3.overflow \/ s4.overflow
                        \/ s5.overflow \/ s6.overflow,
         val |-> s6.val]

\* A (String, usize) returned by one of bgc, ..., cgb.
Arrangement(name, xs) ==
    [output |-> name, count |-> Sum6(xs).val, overflow |-> Sum6(xs).overflow]

\* fn bgc(&self), bcg, gbc, gcb, cbg, cgb: with bin1 = (a, b, c),
\* bin2 = (d, e, f) and bin3 = (g, h, i).
bgc(self) ==
    Arrangement(<<"B", "G", "C">>,
        <<self.bin2[1], self.bin3[1], self.bin1[2], self.bin3[2],
          self.bin1[3], self.bin2[3]>>)

bcg(self) ==
    Arrangement(<<"B", "C", "G">>,
        <<self.bin2[1], self.bin3[1], self.bin1[2], self.bin2[2],
          self.bin1[3], self.bin3[3]>>)

gbc(self) ==
    Arrangement(<<"G", "B", "C">>,
        <<self.bin1[1], self.bin3[1], self.bin2[2], self.bin3[2],
          self.bin1[3], self.bin2[3]>>)

gcb(self) ==
    Arrangement(<<"G", "C", "B">>,
        <<self.bin1[1], self.bin2[1], self.bin2[2], self.bin3[2],
          self.bin1[3], self.bin3[3]>>)

cbg(self) ==
    Arrangement(<<"C", "B", "G">>,
        <<self.bin1[1], self.bin3[1], self.bin1[2], self.bin2[2],
          self.bin2[3], self.bin3[3]>>)

cgb(self) ==
    Arrangement(<<"C", "G", "B">>,
        <<self.bin1[1], self.bin2[1], self.bin1[2], self.bin3[2],
          self.bin2[3], self.bin3[3]>>)

\* The place of a capital letter in the alphabet.
Letter(c) == CHOOSE k \in 1..26 : UpperCase[k] = c

\* s < t for two strings of capital letters of one length (String::cmp).
StrLt(s1, s2) ==
    \E k \in 1..Len(s1) :
        /\ Letter(s1[k]) < Letter(s2[k])
        /\ \A m \in 1..(k - 1) : s1[m] = s2[m]

\* `a.1.cmp(&b.1).then(a.0.cmp(&b.0))` is Less: p comes before q.
Before(p, q) ==
    \/ WLt(p.count, q.count)
    \/ p.count = q.count /\ StrLt(p.output, q.output)

\* outputs.sort_by(..): x is put into the sorted vector before the first
\* element that it comes before.
RECURSIVE Insert(_, _)
Insert(x, sorted) ==
    IF sorted = <<>> THEN <<x>>
    ELSE IF Before(x, sorted[1]) THEN <<x>> \o sorted
    ELSE <<sorted[1]>> \o Insert(x, Tail(sorted))

RECURSIVE sort_by(_)
sort_by(outputs) ==
    IF outputs = <<>> THEN <<>>
    ELSE Insert(outputs[Len(outputs)], sort_by(SubSeq(outputs, 1, Len(outputs) - 1)))

\* fn calculate(&self) -> (String, usize); overflow is whether one of the
\* six sums overflows.
calculate(self) ==
    LET outputs == <<bgc(self), bcg(self), gbc(self), gcb(self), cbg(self),
                     cgb(self)>>
    IN  [output |-> sort_by(outputs)[1].output,
         count |-> sort_by(outputs)[1].count,
         overflow |-> \E k \in 1..6 : outputs[k].overflow]

\* What one iteration of the loop of run writes.
Stdout(output, count) == <<[stream |-> "stdout", output |-> output, count |-> count]>>

Stderr == <<[stream |-> "stderr", output |-> <<>>, count |-> W(0)]>>

\* `match bins.state { .. }` in run.
run_match(self) ==
    IF self.state = "Ok"
    THEN [out |-> Stdout(calculate(self).output, calculate(self).count),
          brk |-> FALSE, overflow |-> calculate(self).overflow]
    ELSE IF self.state = "Err"
    THEN [out |-> Stderr, brk |-> FALSE, overflow |-> FALSE]
    ELSE [out |-> <<>>, brk |-> TRUE, overflow |-> FALSE]

\* The largest bottle count of the lines that are enumerated.
MaxCount == 1

CountTokens == {<<Digits[k + 1]>> : k \in 0..MaxCount}

\* Numbers near the ends of the usize range: 2^63, 2^64 - 2, 2^64 - 1 and
\* 2^64.
Two63 == <<"9", "2", "2", "3", "3", "7", "2", "0", "3", "6", "8", "5", "4", "7", "7", "5", "8", "0", "8">>

UsizeMaxLess1 == <<"1", "8", "4", "4", "6", "7", "4", "4", "0", "7", "3", "7", "0", "9", "5", "5", "1", "6", "1", "4">>

UsizeMax == <<"1", "8", "4", "4", "6", "7", "4", "4", "0", "7", "3", "7", "0", "9", "5", "5", "1", "6", "1", "5">>

Two64 == <<"1", "8", "4", "4", "6", "7", "4", "4", "0", "7", "3", "7", "0", "9", "5", "5", "1", "6", "1", "6">>

\* The lines of nine small counts.
NineCountLines ==
    {Ln(<<t1, t2, t3, t4, t5, t6, t7, t8, t9>>) :
        t1 \in CountTokens, t2 \in CountTokens, t3 \in CountTokens,
        t4 \in CountTokens, t5 \in CountTokens, t6 \in CountTokens,
        t7 \in CountTokens, t8 \in CountTokens, t9 \in CountTokens}

\* The sample lines of the problem, lines with numbers at the ends of the
\* usize range, and lines that are not nine unsigned integers.
SpecialBinLines ==
    { Ln(<<<<"1">>, <<"2">>, <<"3">>, <<"4">>, <<"5">>, <<"6">>, <<"7">>,
           <<"8">>, <<"9">>>>),
      Ln(<<<<"5">>, <<"1", "0">>, <<"5">>, <<"2", "0">>, <<"1", "0">>, <<"5">>,
           <<"1", "0">>, <<"2", "0">>, <<"1", "0">>>>),
      <<" ">> \o Join(<<<<"+", "7">>, <<"0">>, <<"0">>, <<"0">>, <<"3">>,
                        <<"0">>, <<"0">>, <<"0">>, <<"2">>>>, <<"\t", " ">>)
          \o <<"\r", "\n">>,
      Ln(<<Two63, <<"0">>, <<"0">>, Two63, <<"0">>, <<"0">>, <<"0">>,
           <<"0">>, <<"0">>>>),
      Ln(<<Two63, <<"1">>, <<"0">>, <<"0">>, <<"2">>, <<"0">>, <<"0">>,
           <<"0">>, <<"3">>>>),
      Ln(<<UsizeMaxLess1, <<"0">>, <<"0">>, <<"0">>, <<"0">>, <<"0">>,
           <<"0">>, <<"0">>, <<"0">>>>),
      Ln(<<<<"1">>, <<"2">>, <<"3">>, <<"4">>, UsizeMax, <<"6">>, <<"7">>,
           <<"8">>, <<"9">>>>),
      Ln(<<<<"1">>, <<"2">>, <<"3">>, <<"4">>, Two64, <<"6">>, <<"7">>,
           <<"8">>, <<"9">>>>),
      Ln(<<<<"1">>, <<"2">>, <<"3">>, <<"4">>, <<"-", "5">>, <<"6">>,
           <<"7">>, <<"8">>, UsizeMaxLess1>>),
      Ln(<<<<"1">>, <<"2">>, <<"x">>, <<"4">>, <<"5">>, <<"6">>, <<"7">>,
           <<"8">>, <<"9">>>>),
      Ln(<<<<"1">>, <<"2">>, <<"3">>, <<"4">>, <<"5">>, <<"6">>, <<"7">>,
           <<"8">>>>),
      Ln(<<<<"1">>, <<"2">>, <<"3">>, <<"4">>, <<"5">>, <<"6">>, <<"7">>,
           <<"8">>, <<"9">>, <<"1", "0">>>>),
      Ln(<<<<"7">>>>),
      Ln(<<q_>>), Ln(<<quit_>>), Ln(<<<<"Q">>>>), <<" ", "Q", "u", "i", "t", "\r", "\n">>,
      Ln(<<quit_, quit_>>),
      <<"\n">>, <<" ", "\t", "\r", "\n">>, <<>> }

BinLines == NineCountLines \cup SpecialBinLines

\* Bins::new for one line of input, and the arm of run taken for it.
InitBinsNew ==
    /\ BlocksInit
    /\ input \in BinLines
    /\ command = NoCommand
    /\ nread = 0
    /\ eof = FALSE
    /\ dumps = 0
    /\ arm = "None"
    /\ config = [inputs |-> <<>>, i |-> U32(0), j |-> U32(0)]
    /\ CyclesIdle
    /\ BinsIdle
    /\ BoxesIdle
    /\ pc = "new"

\* One iteration of the loop of run on the line `input`; overflowing sums
\* wrap (a build without overflow checks).
BinsNew ==
    /\ pc = "new"
    /\ \E made \in {bins_new(bins_parse(input))} :
           /\ bins' = made
           /\ out' = run_match(made).out
           /\ arm' = made.state
    /\ pc' = "made"
    /\ UNCHANGED <<inst, state, world, a, b, panic, elements, last>>
    /\ UNCHANGED <<input, command, nread, eof, dumps>>
    /\ UNCHANGED <<config, for_n, result, cycles_n, cycle_vec, ret,
                   box1, box2, box3, cmps>>

\* The iteration in which a sum of calculate overflows, in a build with
\* overflow checks: calculate panics.
BinsNewOverflow ==
    /\ pc = "new"
    /\ \E made \in {bins_new(bins_parse(input))} :
           /\ run_match(made).overflow
           /\ bins' = made
           /\ arm' = made.state
    /\ pc' = "panicked"
    /\ UNCHANGED <<inst, state, world, a, b, panic, out, elements, last>>
    /\ UNCHANGED <<input, command, nread, eof, dumps>>
    /\ UNCHANGED <<config, for_n, result, cycles_n, cycle_vec, ret,
                   box1, box2, box3, cmps>>

NextBinsNew ==
    \/ BinsNew
    \/ BinsNewOverflow

SpecBinsNew == InitBinsNew /\ [][NextBinsNew]_vars

\* The lines a session of run may read.
SessionBinLines ==
    SpecialBinLines
    \cup {Ln(<<t1, t2, t3, <<"1">>, <<"0">>, <<"0">>, <<"0">>, <<"1">>, <<"0">>>>) :
            t1 \in CountTokens, t2 \in CountTokens, t3 \in CountTokens}

InitBins ==
    /\ BlocksInit
    /\ SessionInit
    /\ OtherInit
    /\ pc = "run"

\* One iteration of the loop of run: Bins::new reads a line, and the arm
\* of the match is executed; overflowing sums wrap.
BinsLine(rd) ==
    /\ pc = "run"
    /\ input' = rd.line
    /\ eof' = rd.eof
    /\ nread' = rd.n
    /\ \E made \in {bins_new(bins_parse(rd.line))} :
           /\ bins' = made
           /\ arm' = made.state
           /\ \E step \in {run_match(made)} :
                  /\ out' = step.out
                  /\ pc' = IF step.brk THEN "done" ELSE "run"
    /\ UNCHANGED <<inst, state, world, a, b, panic, elements, last>>
    /\ UNCHANGED <<command, dumps>>
    /\ UNCHANGED <<config, for_n, result, cycles_n, cycle_vec, ret,
                   box1, box2, box3, cmps>>

\* The iteration in which a sum of calculate overflows, in a build with
\* overflow checks: the session ends in a panic.
BinsLineOverflow(rd) ==
    /\ pc = "run"
    /\ \E made \in {bins_new(bins_parse(rd.line))} :
           /\ run_match(made).overflow
           /\ bins' = made
           /\ arm' = made.state
    /\ input' = rd.line
    /\ eof' = rd.eof
    /\ nread' = rd.n
    /\ out' = <<>>
    /\ pc' = "panicked"
    /\ UNCHANGED <<inst, state, world, a, b, panic, elements, last>>
    /\ UNCHANGED <<command, dumps>>
    /\ UNCHANGED <<config, for_n, result, cycles_n, cycle_vec, ret,
                   box1, box2, box3, cmps>>

\* The iteration in which Bins::read_line returns Err (a line that is not
\* UTF-8): Bins::new returns Bins::error().
BinsReadFails ==
    /\ pc = "run"
    /\ ~eof
    /\ nread < MaxLines
    /\ nread' = nread + 1
    /\ bins' = bins_error
    /\ arm' = "ReadError"
    /\ out' = run_match(bins_error).out
    /\ UNCHANGED <<inst, state, world, a, b, panic, elements, last>>
    /\ UNCHANGED <<input, command, pc, eof, dumps>>
    /\ UNCHANGED <<config, for_n, result, cycles_n, cycle_vec, ret,
                   box1, box2, box3, cmps>>

NextBins ==
    \/ \E rd \in Reads(SessionBinLines) : BinsLine(rd)
    \/ \E rd \in Reads(SessionBinLines) : BinsLineOverflow(rd)
    \/ BinsReadFails

SpecBins == InitBins /\ [][NextBins]_vars

(***************************************************************************)
(* Stacking Boxes (problem 103, boxes.rs): the comparisons of Box_.  A     *)
(* Box_ is written as its box_ vector.                                     *)
(***************************************************************************)

\* The largest number of dimensions and the largest measure of the boxes
\* that are enumerated.
MaxBoxLen == 2

MaxDim == 2

\* Vec<usize>::cmp: the first pair of unequal elements decides, then the
\* lengths.
vec_cmp(v1, v2) ==
    LET diff == {k \in 1..Len(v1) : k <= Len(v2) /\ v1[k] # v2[k]}
        k0 == CHOOSE k \in diff : \A m \in diff : k <= m
    IN  IF diff # {} THEN (IF v1[k0] < v2[k0] THEN "Less" ELSE "Greater")
        ELSE IF Len(v1) < Len(v2) THEN "Less"
        ELSE IF Len(v1) > Len(v2) THEN "Greater"
        ELSE "Equal"

\* is_less and is_greater after the for loop of cmp and of eq.
is_less(self, other) == \A k \in 1..Len(self) : ~(self[k] >= other[k])

is_greater(self, other) == \A k \in 1..Len(self) : ~(self[k] <= other[k])

\* cmp with is_less and is_greater cleared by `>` and `<` only.
cmp_not_strict(self, other) ==
    IF Len(self) # Len(other) THEN vec_cmp(self, other)
    ELSE IF \A k \in 1..Len(self) : ~(self[k] > other[k]) THEN "Less"
    ELSE IF \A k \in 1..Len(self) : ~(self[k] < other[k]) THEN "Greater"
    ELSE "Equal"

\* impl Ord for Box_: fn cmp(&self, other: &Box_) -> Ordering
cmp(self, other) ==
    IF Len(self) # Len(other) THEN vec_cmp(self, other)
    ELSE IF is_less(self, other) THEN "Less"
    ELSE IF is_greater(self, other) THEN "Greater"
    ELSE "Equal"

\* impl PartialOrd for Box_: fn partial_cmp
partial_cmp(self, other) == Some(cmp(self, other))

\* `self < other`: PartialOrd::lt, partial_cmp is Some(Less).
lt(self, other) == partial_cmp(self, other) = Some("Less")

\* impl PartialEq for Box_: fn eq(&self, other: &Box_) -> bool
eq(self, other) ==
    IF Len(self) # Len(other) THEN FALSE
    ELSE IF is_less(self, other) THEN FALSE
    ELSE IF is_greater(self, other) THEN FALSE
    ELSE TRUE

\* The box_ vectors of at most MaxBoxLen measures, each at most MaxDim.
BoxVecs == UNION {[1..len -> 0..MaxDim] : len \in 0..MaxBoxLen}

InitBoxes ==
    /\ BlocksInit
    /\ SessionInit
    /\ config = [inputs |-> <<>>, i |-> U32(0), j |-> U32(0)]
    /\ CyclesIdle
    /\ BinsIdle
    /\ box1 \in BoxVecs
    /\ box2 \in BoxVecs
    /\ box3 \in BoxVecs
    /\ cmps = <<>>
    /\ pc = "boxes"

\* The comparisons of the three boxes with each other.
Compare ==
    /\ pc = "boxes"
    /\ cmps' = [c12 |-> cmp(box1, box2), c21 |-> cmp(box2, box1),
                e12 |-> eq(box1, box2),
                lt11 |-> lt(box1, box1), lt12 |-> lt(box1, box2),
                lt21 |-> lt(box2, box1), lt23 |-> lt(box2, box3),
                lt13 |-> lt(box1, box3)]
    /\ pc' = "compared"
    /\ UNCHANGED <<inst, state, world, a, b, panic, out, elements, last>>
    /\ UNCHANGED <<input, command, nread, eof, dumps, arm>>
    /\ UNCHANGED <<config, for_n, result, cycles_n, cycle_vec, ret, bins,
                   box1, box2, box3>>

NextBoxes == Compare

SpecBoxes == InitBoxes /\ [][NextBoxes]_vars

(***************************************************************************)
(* Vocabulary of the properties.  These definitions restate the spec's     *)
(* words over a world value; none of them is used by the model above.      *)
(***************************************************************************)

\* The blocks of a stack, as a set.
Elems(stk) == {stk[p] : p \in 1..Len(stk)}

\* The places (sequence index of the stack, position) where block x lies.
Places(w, x) ==
    UNION { {<<i, p>> : p \in {q \in 1..Len(w[i]) : w[i][q] = x}} : i \in 1..Len(w) }

\* The sequence index of the stack that holds block x.
StackOf(w, x) == CHOOSE i \in 1..Len(w) : x \in Elems(w[i])

\* The position of block x in its stack.
PosOf(w, x) == CHOOSE p \in 1..Len(w[StackOf(w, x)]) : w[StackOf(w, x)][p] = x

\* The blocks below x in its stack (P, Q) and the blocks above it (U, V).
Below(w, x) == SubSeq(w[StackOf(w, x)], 1, PosOf(w, x) - 1)

Above(w, x) == SubSeq(w[StackOf(w, x)], PosOf(w, x) + 1, Len(w[StackOf(w, x)]))

\* A u32 that names a block of world w.
InRange(w, u) == u.hi = 0 /\ u.lo < Len(w)

\* The spec's validation rule for source ua and destination ub.
Invalid(w, ua, ub) ==
    \/ ua = ub
    \/ ~InRange(w, ua)
    \/ ~InRange(w, ub)
    \/ StackOf(w, ua.lo) = StackOf(w, ub.lo)

\* The last call was the completion `op` of a pending `verb` operation.
Completed(verb, op) ==
    /\ inst = "Ok"
    /\ last.op = op
    /\ last.pre.state = verb

\* ... and its source and destination pass validation.
Accepted(verb, op) ==
    /\ Completed(verb, op)
    /\ ~Invalid(last.pre.world, last.pre.a[1], last.arg)

\* The world before the last call, and the blocks A and B of the last call.
W0 == last.pre.world

BlockA == last.pre.a[1].lo

BlockB == last.arg.lo

\* Every block of the sequence u lies in the stack of its own number.
AllHome(u) == \A x \in Elems(u) : x \in Elems(world[x + 1])

\* C1: block conservation -- in every world created by Blocks::new(N), after
\* any sequence of public calls with arbitrary arguments, every block
\* 0..N-1 lies in exactly one stack exactly once, and nothing else lies in
\* any stack.
C1_BlockConservation ==
    inst = "Ok" =>
        /\ \A x \in 0..(elements - 1) : Cardinality(Places(world, x)) = 1
        /\ \A i \in 1..Len(world) : Elems(world[i]) \subseteq 0..(elements - 1)

\* C1 witness: an accepted pile has just moved two or more blocks.
C1_Witness ==
    /\ Accepted("Pile", "onto_b")
    /\ ~panic
    /\ Len(Above(W0, BlockA)) >= 1
    /\ Len(world[StackOf(world, BlockB)]) >= 3

\* C2: move A onto B, validation passed, A's stack = P ++ [A] ++ U and B's
\* stack = Q ++ [B] ++ V before: afterwards A's old stack is P, B's stack is
\* Q ++ [B, A], and every block of U and V is in the stack of its number.
C2_MoveOnto ==
    Accepted("Move", "onto_b") =>
        /\ ~panic
        /\ world[StackOf(W0, BlockA)] = Below(W0, BlockA)
        /\ world[StackOf(W0, BlockB)] = Below(W0, BlockB) \o <<BlockB, BlockA>>
        /\ AllHome(Above(W0, BlockA))
        /\ AllHome(Above(W0, BlockB))

\* C2 witness: a move onto with blocks above A and blocks above B.
C2_Witness ==
    /\ Accepted("Move", "onto_b")
    /\ Above(W0, BlockA) # <<>>
    /\ Above(W0, BlockB) # <<>>

\* C3: move A over B, validation passed, A's stack = P ++ [A] ++ U and B's
\* stack = S before: afterwards A's old stack is P, B's stack is S ++ [A],
\* and every block of U is in the stack of its number.
C3_MoveOver ==
    Accepted("Move", "over_b") =>
        /\ ~panic
        /\ world[StackOf(W0, BlockA)] = Below(W0, BlockA)
        /\ world[StackOf(W0, BlockB)] = W0[StackOf(W0, BlockB)] \o <<BlockA>>
        /\ AllHome(Above(W0, BlockA))

\* C3 witness: a move over with blocks above A and blocks above B.
C3_Witness ==
    /\ Accepted("Move", "over_b")
    /\ Above(W0, BlockA) # <<>>
    /\ Above(W0, BlockB) # <<>>

\* C4: pile A onto B, validation passed, A's stack = P ++ [A] ++ U and B's
\* stack = Q ++ [B] ++ V before: afterwards A's old stack is P, B's stack is
\* Q ++ [B] ++ [A] ++ U, and every block of V is in the stack of its number.
C4_PileOnto ==
    Accepted("Pile", "onto_b") =>
        /\ ~panic
        /\ world[StackOf(W0, BlockA)] = Below(W0, BlockA)
        /\ world[StackOf(W0, BlockB)] =
               Below(W0, BlockB) \o <<BlockB, BlockA>> \o Above(W0, BlockA)
        /\ AllHome(Above(W0, BlockB))

\* C4 witness: a pile onto that carries a block above A, with a block
\* above B.
C4_Witness ==
    /\ Accepted("Pile", "onto_b")
    /\ Len(Above(W0, BlockA)) >= 1
    /\ Above(W0, BlockB) # <<>>

\* C5: pile A over B, validation passed, A's stack = P ++ [A] ++ U and B's
\* stack = S before: afterwards A's old stack is P and B's stack is
\* S ++ [A] ++ U; no block is returned to its home stack (every other stack
\* is as before).
C5_PileOver ==
    Accepted("Pile", "over_b") =>
        /\ ~panic
        /\ world[StackOf(W0, BlockA)] = Below(W0, BlockA)
        /\ world[StackOf(W0, BlockB)] =
               W0[StackOf(W0, BlockB)] \o <<BlockA>> \o Above(W0, BlockA)
        /\ \A i \in 1..Len(W0) :
               i \notin {StackOf(W0, BlockA), StackOf(W0, BlockB)} => world[i] = W0[i]
        /\ Len(world) = Len(W0)

\* C5 witness: a pile over with blocks above A and blocks above B.
C5_Witness ==
    /\ Accepted("Pile", "over_b")
    /\ Above(W0, BlockA) # <<>>
    /\ Above(W0, BlockB) # <<>>

\* C6: a completion whose pending source a and destination b are equal, out
\* of range or in the same stack leaves every stack unchanged and raises no
\* error.
C6_InvalidNoOp ==
    /\ \A verb \in {"Move", "Pile"} : \A op \in {"onto_b", "over_b"} :
           (Completed(verb, op) /\ Invalid(W0, last.pre.a[1], last.arg)) =>
               world = W0 /\ ~panic

\* C6 witness: a completion was rejected only because a and b share a stack.
C6_Witness ==
    /\ \E verb \in {"Move", "Pile"} : \E op \in {"onto_b", "over_b"} :
           Completed(verb, op)
    /\ last.pre.a[1] # last.arg
    /\ InRange(W0, last.pre.a[1])
    /\ InRange(W0, last.arg)
    /\ StackOf(W0, BlockA) = StackOf(W0, BlockB)
    /\ world = W0

\* The Blocks value s has the world of the current state and did not panic.
WorldKept(s) == ~s.panic /\ s.world = world

\* C7: validation symmetry -- in every reachable world and for every pair
\* (x, y), move-onto, move-over, pile-onto and pile-over are all rejected
\* (the world stays as it is) or all accepted (the world changes).  print
\* is enabled in every live state and leaves the Blocks as it is, so the
\* states that follow a print with nothing pending show every reachable
\* world; the four operations are tried there.
C7_ValidationSymmetry ==
    (Live /\ state = "Init" /\ last.op = "print") =>
        \A x \in Args : \A y \in Args :
            LET mo == WorldKept(onto_b(move_a(Self, x), y))
                mv == WorldKept(over_b(move_a(Self, x), y))
                po == WorldKept(onto_b(pile_a(Self, x), y))
                pv == WorldKept(over_b(pile_a(Self, x), y))
            IN  mo = mv /\ mv = po /\ po = pv

\* C7 witness: a world in which one pair of distinct blocks is rejected by
\* all four operations because the blocks share a stack, and another pair
\* is accepted by all four.
C7_Witness ==
    /\ Live /\ state = "Init" /\ last.op = "print"
    /\ \E x \in Args : \E y \in Args :
           /\ x # y /\ InRange(world, x) /\ InRange(world, y)
           /\ StackOf(world, x.lo) = StackOf(world, y.lo)
           /\ WorldKept(onto_b(move_a(Self, x), y))
           /\ WorldKept(over_b(pile_a(Self, x), y))
    /\ \E x \in Args : \E y \in Args :
           /\ ~WorldKept(over_b(move_a(Self, x), y))
           /\ ~WorldKept(onto_b(pile_a(Self, x), y))

\* C8: Blocks::new(n) with n >= 1 returns a world of exactly n stacks, stack
\* i being [i], with state Init and a = b = None; Blocks::new(0) returns an
\* error and no world.
C8_Initialization ==
    last.op = "new" =>
        IF U32Val(last.arg) >= 1
        THEN /\ inst = "Ok"
             /\ Len(world) = U32Val(last.arg)
             /\ \A i \in 0..(U32Val(last.arg) - 1) : world[i + 1] = <<i>>
             /\ state = "Init"
             /\ a = None
             /\ b = None
        ELSE /\ inst = "Err"
             /\ world = <<>>

\* C8 witness: new(0) failed and a later new(n), n >= 3, succeeded.
C8_Witness ==
    /\ last.op = "new"
    /\ last.was = "Err"
    /\ inst = "Ok"
    /\ Len(world) >= 3

\* C9: the number of stacks is N in every reachable state; stacks become
\* empty but none is removed or added.
C9_FixedWorldSize ==
    inst = "Ok" => Len(world) = elements

\* C9 witness: an accepted move that returned blocks left an empty stack.
C9_Witness ==
    /\ Accepted("Move", "onto_b")
    /\ ~panic
    /\ Above(W0, BlockA) # <<>>
    /\ \E i \in 1..Len(world) : world[i] = <<>>

\* C10: move_a(x) / pile_a(x) in state Init sets the state to Move / Pile
\* with a = Some(x) and b = None; in state Move or Pile it resets to Init
\* with a = b = None and starts nothing; it never changes the world.
C10_BeginTransitions ==
    (inst = "Ok" /\ last.op \in {"move_a", "pile_a"}) =>
        /\ ~panic
        /\ world = W0
        /\ last.pre.state = "Init" =>
               /\ state = (IF last.op = "move_a" THEN "Move" ELSE "Pile")
               /\ a = Some(last.arg)
               /\ b = None
        /\ last.pre.state \in {"Move", "Pile"} =>
               /\ state = "Init"
               /\ a = None
               /\ b = None

\* C10 witness: move_a arrived while a pile was pending, in a world that
\* earlier operations have changed.
C10_Witness ==
    /\ inst = "Ok"
    /\ last.op = "move_a"
    /\ last.pre.state = "Pile"
    /\ state = "Init"
    /\ \E i \in 1..Len(world) : Len(world[i]) >= 2

\* C11: every onto_b / over_b call returns with state Init and a = b = None,
\* whether the operation executed, failed validation, or nothing was
\* pending; a completion received in state Init leaves the world unchanged.
C11_CompletionClears ==
    (inst = "Ok" /\ last.op \in {"onto_b", "over_b"}) =>
        /\ ~panic
        /\ state = "Init"
        /\ a = None
        /\ b = None
        /\ last.pre.state = "Init" => world = W0

\* C11 witness: a completion that executed (the world changed) has cleared
\* the pending operation.
C11_Witness ==
    /\ Accepted("Pile", "over_b")
    /\ world # W0
    /\ state = "Init"
    /\ a = None

\* C12: a print changes neither the world nor the pending operation, and a
\* print that follows a print writes the same dump.
C12_PrintReadOnly ==
    [][ last'.op = "print" =>
            /\ Self' = Self
            /\ last.op = "print" => out' = out ]_vars

\* C12 witness: a print has followed a print while an operation was pending
\* in a world that operations have changed.
C12_Witness ==
    /\ last.op = "print"
    /\ last.again
    /\ state = "Pile"
    /\ \E i \in 1..Len(world) : Len(world[i]) >= 2

\* C13: the dump has exactly one entry per stack index, in ascending order
\* 0..N-1, each listing that stack's blocks from bottom to top; an empty
\* stack still has its entry.
C13_DumpShape ==
    (inst = "Ok" /\ last.op = "print") =>
        /\ Len(out) = elements
        /\ \A i \in 0..(elements - 1) :
               /\ out[i + 1][1] = i
               /\ out[i + 1][2] = world[i + 1]

\* C13 witness: a dump of a world with an empty stack and a stack of three
\* or more blocks.
C13_Witness ==
    /\ inst = "Ok"
    /\ last.op = "print"
    /\ \E i \in 1..Len(world) : world[i] = <<>> /\ out[i][2] = <<>>
    /\ \E i \in 1..Len(world) : Len(world[i]) >= 3

\* The line as parse sees it after `trim().to_lowercase()`, and its tokens.
Normalised(line) == to_lowercase(trim(line))

Tokens(line) == split_whitespace(Normalised(line))

\* The line is one of the session-control words.
IsControl(line) == Normalised(line) \in {quit_, q_, print_, p_}

BadVerb(tok) == tok \notin {move_, pile_}

BadPrep(tok) == tok \notin {onto_, over_}

\* The token is not accepted as an unsigned integer.
BadNumber(tok) == ~parse_u32(tok).ok

\* The Command is the Error with this message.
IsError(cmd, msg) == cmd.state = "Error" /\ cmd.error_msg = msg

\* C14: for every input line parse returns a Command whose state is Quit,
\* Print, Error or Do; Do implies from is Move or Pile and to is Onto or
\* Over, so main_loop takes neither its Init arm nor a catch-all arm.
C14_ParserTotality ==
    pc = "parsed" =>
        /\ command.state \in {"Quit", "Print", "Error", "Do"}
        /\ command.state = "Do" =>
               /\ command.from \in {"Move", "Pile"}
               /\ command.to \in {"Onto", "Over"}
        /\ arm \in {"Quit", "Print", "Error",
                    "MoveOnto", "MoveOver", "PileOnto", "PileOver"}

\* C14 witness: a pile line written in upper and lower case parsed to Do.
C14_Witness ==
    /\ pc = "parsed"
    /\ command.state = "Do"
    /\ arm = "PileOver"
    /\ input[1] = "P"
    /\ Tokens(input)[1] = pile_

TokenA == parse_u32(Tokens(input)[2]).val

TokenB == parse_u32(Tokens(input)[4]).val

\* The last line read in the instruction loop was an instruction that the
\* validation rule rejects in the world it met.
RejectedLine ==
    /\ last.op = "line"
    /\ command.state = "Do"
    /\ Invalid(W0, TokenA, TokenB)

\* C16: after a line of the instruction loop that parses to Error, or an
\* instruction that fails validation, the loop goes on to the next line,
\* the Blocks (world and pending state) is as it was before the line, and
\* nothing was dumped.
C16_ErrorsNonFatal ==
    (last.op = "line" /\ (command.state = "Error" \/ RejectedLine)) =>
        /\ pc \in {"loop", "failed"}
        /\ pc = "loop" => ENABLED (\E rd \in Reads(LoopLines) : LoopLine(rd))
        /\ ~panic
        /\ Self = last.pre
        /\ out = <<>>
        /\ arm \notin {"Print", "Quit"}

C16_Witness ==
    /\ RejectedLine
    /\ pc = "loop"
    /\ InRange(W0, TokenA)
    /\ InRange(W0, TokenB)
    /\ TokenA # TokenB
    /\ Len(W0[StackOf(W0, TokenA.lo)]) = 3

\* C17: the step of the instruction loop that reads a Quit line dumps the
\* world exactly once, changes nothing in it and leaves the loop; the loop
\* is left with Ok by no other line; and once the session has ended no
\* line is read or applied.
C17_QuitEndsSession ==
    [][ /\ (pc = "loop" /\ pc' # "failed" /\ command'.state = "Quit") =>
            /\ dumps' = dumps + 1
            /\ out' = print(Self)
            /\ Self' = Self
            /\ pc' = "done"
        /\ (pc = "loop" /\ pc' = "done") => command'.state = "Quit"
        /\ pc \in {"done", "failed"} => FALSE ]_vars

C17_Witness ==
    /\ pc = "done"
    /\ inst = "Ok"
    /\ command.state = "Quit"
    /\ dumps = 2
    /\ \E i \in 1..Len(world) : Len(world[i]) = 2
    /\ out = print(Self)

\* The last line read was a line of the setup stage; SizeOf is the number
\* written on it, if it is one.
SetupRead == last.op = "setup" /\ pc # "failed"

SizeOf == parse_u32(trim(input))

\* C18: at the setup stage a size line of 0 or a non-numeric size line is
\* reported and the size is read again, with no world created; quit / q
\* ends the session with no world; the first size line N >= 1 creates the
\* world of exactly N stacks and enters the instruction loop; the
\* instruction loop never runs on a world of no stacks.
C18_SetupStage ==
    /\ SetupRead =>
        /\ last.was = "None"
        /\ (SizeOf.ok /\ SizeOf.val = U32(0)) =>
              pc = "setup" /\ inst = "None" /\ arm = "SizeZero"
        /\ (~SizeOf.ok /\ trim(input) \notin {q_, quit_}) =>
              pc = "setup" /\ inst = "None" /\ arm = "SizeInvalid"
        /\ trim(input) \in {q_, quit_} => pc = "done" /\ inst = "None"
        /\ (SizeOf.ok /\ SizeOf.val # U32(0)) =>
              /\ pc = "loop"
              /\ inst = "Ok"
              /\ state = "Init" /\ a = None /\ b = None
              /\ Len(world) = U32Val(SizeOf.val)
              /\ \A i \in 1..Len(world) : world[i] = <<i - 1>>
    /\ inst = "None" => world = <<>> /\ pc # "loop"
    /\ (pc = "loop" \/ last.op = "line") => inst = "Ok" /\ Len(world) >= 1

C18_Witness ==
    /\ SetupRead
    /\ pc = "loop"
    /\ nread = 3
    /\ Len(world) = 3
    /\ input # trim(input)

\* The spec's validation rule in the new world of `elements` stacks, where
\* two blocks share a stack only if they are one block.
InvalidNew(n, ua, ub) ==
    \/ ua = ub
    \/ ~ULt(ua, n)
    \/ ~ULt(ub, n)

\* C19: for every world of size N and all u32 identifiers a and b, a
\* completion is rejected if and only if a = b, a >= N, b >= N, or a and b
\* are in the same stack, whatever the magnitude of the identifiers.
C19_ValidationExact ==
    pc = "validated" =>
        (arm = "Rejected" <=> InvalidNew(elements, a[1], b[1]))

\* C20: whenever parse returns state Do, a and b are non-negative and equal
\* the numeric values of the second and fourth tokens, for every token the
\* parser accepts as an unsigned integer.
C20_ParsedIdentifiersFaithful ==
    (pc = "parsed" /\ command.state = "Do") =>
        /\ command.a >= 0
        /\ command.b >= 0
        /\ U32(command.a) = parse_u32(Tokens(input)[2]).val
        /\ U32(command.b) = parse_u32(Tokens(input)[4]).val

\* C21: for every Command returned by parse, error_msg is non-empty if and
\* only if state is Error.
C21_ErrorMsgIffError ==
    pc = "parsed" => (command.error_msg.text # "" <=> command.state = "Error")

C21_Witness ==
    /\ pc = "parsed"
    /\ Len(Tokens(input)) = 3
    /\ command.state = "Error"
    /\ command.error_msg = CountMsg(3)

\* The numbers for which the cycle is checked.
CheckedRange == SmallIJ \ {U32(0)}

\* x is followed by y in the sequence of the 3n + 1 problem.
Follows(x, y) == y = IF x % 2 = 0 THEN x \div 2 ELSE 3 * x + 1

\* C22: for every n >= 1 of the checked range, the vector which cycles(n)
\* returns starts with n, ends with 1, holds 1 nowhere else, and each
\* element x is followed by x/2 if x is even and by 3x+1 if x is odd;
\* cycles(22) has 16 elements and cycles(10) has 7.
C22_CollatzSequence ==
    (pc = "for" /\ for_n \in CheckedRange) =>
        /\ cycle_vec # <<>>
        /\ cycle_vec[1] = for_n
        /\ cycle_vec[Len(cycle_vec)] = U32(1)
        /\ \A k \in 1..(Len(cycle_vec) - 1) :
              /\ cycle_vec[k] # U32(1)
              /\ Follows(U32Val(cycle_vec[k]), U32Val(cycle_vec[k + 1]))
        /\ for_n = U32(22) => Len(cycle_vec) = 16
        /\ for_n = U32(10) => Len(cycle_vec) = 7

C22_Witness ==
    /\ pc = "for"
    /\ for_n = U32(22)
    /\ Len(cycle_vec) = 16
    /\ cycle_vec[3] = U32(34)

\* The number of elements of the 3n + 1 sequence that starts at x >= 1.
RECURSIVE CollatzLen(_)
CollatzLen(x) ==
    IF x = 1 THEN 1
    ELSE IF x % 2 = 0 THEN 1 + CollatzLen(x \div 2)
    ELSE 1 + CollatzLen(3 * x + 1)

\* The largest member of a non-empty finite set of numbers.
Largest(S) == CHOOSE x \in S : \A y \in S : y <= x

\* The Config has non-empty inputs and i, j >= 1.
ProperConfig ==
    Len(config.inputs) # 0 /\ config.i # U32(0) /\ config.j # U32(0)

\* C23: for a Config with non-empty inputs and i, j >= 1, max_cycles
\* returns (i, j, r) with i and j in the order given and r the maximum of
\* the lengths of cycles(n) for n between min(i, j) and max(i, j).
C23_MaxCycles ==
    ProperConfig =>
        /\ pc # "panicked"
        /\ pc = "returned" =>
              /\ ret[1] = config.i
              /\ ret[2] = config.j
              /\ (config.i \in SmallIJ /\ config.j \in SmallIJ) =>
                    ret[3] = U32(Largest({CollatzLen(x) :
                                 x \in U32Val(min_max(config)[1])
                                       ..U32Val(min_max(config)[2])}))

\* The nine counts of a Bins, and the number written by a count below
\* 2^31.
Counts(self) == self.bin1 \o self.bin2 \o self.bin3

WVal(w) == w[1] + w[2] * Limb

SmallCounts(self) ==
    \A k \in 1..9 : Counts(self)[k][2] = 0 /\ Counts(self)[k][3] = 0
                    /\ Counts(self)[k][4] = 0

\* The six arrangements, and for an arrangement the places, among the nine
\* counts, of the bottles that stay where they are: bin k keeps the colour
\* of the k-th letter.
Arrangements ==
    {<<"B", "G", "C">>, <<"B", "C", "G">>, <<"G", "B", "C">>,
     <<"G", "C", "B">>, <<"C", "B", "G">>, <<"C", "G", "B">>}

Colour(c) == IF c = "B" THEN 1 ELSE IF c = "G" THEN 2 ELSE 3

Kept(arr) == {3 * (k - 1) + Colour(arr[k]) : k \in 1..3}

\* Total minus the three kept counts.
Moved(self, arr) ==
    LET c == [k \in 1..9 |-> WVal(Counts(self)[k])]
    IN  (c[1] + c[2] + c[3] + c[4] + c[5] + c[6] + c[7] + c[8] + c[9])
          - (c[Colour(arr[1])] + c[3 + Colour(arr[2])] + c[6 + Colour(arr[3])])

\* C24: for every nine bottle counts calculate returns the arrangement
\* with the smallest number of moved bottles (total minus the three kept
\* counts), and among those with that number the alphabetically first.
\* For counts too large to add up here the returned number is compared
\* with each count that is not kept: it cannot be smaller.
C24_BinOptimum ==
    /\ pc # "panicked"
    /\ (pc = "made" /\ bins.state = "Ok") =>
          /\ Len(out) = 1
          /\ out[1].stream = "stdout"
          /\ out[1].output \in Arrangements
          /\ \A k \in (1..9) \ Kept(out[1].output) :
                ~WLt(out[1].count, Counts(bins)[k])
          /\ SmallCounts(bins) =>
                /\ out[1].count = W(Moved(bins, out[1].output))
                /\ \A arr \in Arrangements :
                      /\ Moved(bins, out[1].output) <= Moved(bins, arr)
                      /\ Moved(bins, out[1].output) = Moved(bins, arr) =>
                            (arr = out[1].output \/ StrLt(out[1].output, arr))

\* The line is empty, "q" or "quit" after trimming and lower-casing.
QuitLine(line) == to_lowercase(trim(line)) \in {<<>>, q_, quit_}

\* The line has exactly nine tokens and each parses as an unsigned integer.
NineUnsigned(line) ==
    /\ Len(split_whitespace(line)) = 9
    /\ \A k \in 1..9 : parse_usize(split_whitespace(line)[k]).ok

\* C25: Bins::new yields Quit exactly for the empty line, "q" and "quit"
\* (trimmed, lower-cased), Err exactly for the other lines that do not
\* have exactly nine tokens or have a token that does not parse as an
\* unsigned integer, and otherwise Ok with the nine parsed values, for
\* every value of the machine word.
C25_BinClassification ==
    pc \in {"made", "panicked"} =>
        /\ bins.state = "Quit" <=> QuitLine(input)
        /\ bins.state = "Err" <=> (~QuitLine(input) /\ ~NineUnsigned(input))
        /\ bins.state = "Ok" <=> (~QuitLine(input) /\ NineUnsigned(input))
        /\ bins.state = "Ok" =>
              \A k \in 1..9 :
                  Counts(bins)[k] = parse_usize(split_whitespace(input)[k]).val

\* C26: run takes the lines in order; the step that reads an Ok line
\* writes exactly one result and goes on, the step that reads an Err line
\* writes exactly one error message and goes on, the step that reads a
\* Quit line ("q", "quit" or an empty line; the end of the input reads as
\* the empty line) ends the session, no other line ends it, and nothing is
\* processed after the end.
C26_BinSession ==
    [][ /\ (pc = "run" /\ arm' # "ReadError") =>
            /\ (~QuitLine(input') /\ NineUnsigned(input')) =>
                  /\ Len(out') = 1
                  /\ out'[1].stream = "stdout"
                  /\ pc' = "run"
            /\ (~QuitLine(input') /\ ~NineUnsigned(input')) =>
                  /\ out' = Stderr
                  /\ pc' = "run"
            /\ QuitLine(input') => (pc' = "done" /\ out' = <<>>)
        /\ pc \in {"done", "panicked"} => FALSE ]_vars

\* Every measure of v1 is strictly smaller (larger) than the corresponding
\* measure of v2.
AllSmaller(v1, v2) == \A k \in 1..Len(v1) : v1[k] < v2[k]

AllLarger(v1, v2) == \A k \in 1..Len(v1) : v1[k] > v2[k]

\* The rule of C27 for box1 and box2.
NestingRule ==
    /\ cmps.c12 = "Less" <=> AllSmaller(box1, box2)
    /\ cmps.c12 = "Greater" <=> AllLarger(box1, box2)
    /\ cmps.c12 = "Equal" <=>
          (~AllSmaller(box1, box2) /\ ~AllLarger(box1, box2))

C28_StrictPartialOrder ==
    pc = "compared" =>
        /\ ~cmps.lt11
        /\ ~(cmps.lt12 /\ cmps.lt21)
        /\ (cmps.lt12 /\ cmps.lt23) => cmps.lt13

\* C29: x == y if and only if cmp(x, y) is Equal; cmp(x, y) is Less if and
\* only if cmp(y, x) is Greater; boxes with different numbers of
\* dimensions are never equal.
C29_EqAgreesWithCmp ==
    pc = "compared" =>
        /\ cmps.e12 <=> cmps.c12 = "Equal"
        /\ cmps.c12 = "Less" <=> cmps.c21 = "Greater"
        /\ Len(box1) # Len(box2) => ~cmps.e12

\* The operation that the verb and the preposition of the last line
\* select.
Selected ==
    IF Tokens(input)[1] = move_
    THEN (IF Tokens(input)[3] = onto_ THEN "MoveOnto" ELSE "MoveOver")
    ELSE (IF Tokens(input)[3] = onto_ THEN "PileOnto" ELSE "PileOver")

\* The one operation `name` applied to blocks x and y of a Blocks with
\* nothing pending, in one step.
Atomic(self, name, x, y) ==
    LET s == [self EXCEPT !.a = Some(x), !.b = Some(y)]
        r == CASE name = "MoveOnto" -> move_a_onto_b(s)
               [] name = "MoveOver" -> move_a_over_b(s)
               [] name = "PileOnto" -> pile_a_onto_b(s)
               [] name = "PileOver" -> pile_a_over_b(s)
    IN  [r EXCEPT !.state = "Init", !.a = None, !.b = None]

\* C30: in the Robot session nothing is pending before and after every
\* input line (state Init, a = b = None), and each line that parses to Do
\* has exactly the effect of applying, in one step, the operation of
\* {MoveOnto, MoveOver, PileOnto, PileOver} that its verb and preposition
\* select to the two numbers written in it.
C30_TwoPhaseRefinesAtomic ==
    /\ inst = "Ok" => (state = "Init" /\ a = None /\ b = None)
    /\ last.op = "line" =>
          (last.pre.state = "Init" /\ last.pre.a = None /\ last.pre.b = None)
    /\ (last.op = "line" /\ command.state = "Do") =>
          Self = Atomic(last.pre, Selected, TokenA, TokenB)

C30_Witness ==
    /\ last.op = "line"
    /\ command.state = "Do"
    /\ Selected = "PileOnto"
    /\ Len(W0[StackOf(W0, TokenA.lo)]) = 2
    /\ PosOf(W0, TokenA.lo) = 1
    /\ world # W0
    /\ nread = 3

\* The blocks that the last call returned: they were not in the stack of
\* their own number before it and are there afterwards.
Returned ==
    {x \in 0..(elements - 1) :
        StackOf(W0, x) # x + 1 /\ StackOf(world, x) = x + 1}

\* The blocks strictly above the pivot x before the last call; there are
\* L - p - 1 of them for a pivot at position p of a stack of length L.
AbovePivot(x) == Elems(Above(W0, x))

\* The pivots of the last call: A for a move, B for an onto.
Pivots ==
    (IF last.pre.state = "Move" THEN {BlockA} ELSE {})
        \cup (IF last.op = "onto_b" THEN {BlockB} ELSE {})

\* C31: whenever an accepted operation unpiles above a pivot at position p
\* of a stack of length L (A in a move, B in an onto), exactly the
\* L - p - 1 blocks strictly above the pivot are returned and the pivot is
\* not; right after the operation each returned block x is the only block
\* of stack x.
C31_UnpileReturns ==
    \A verb \in {"Move", "Pile"} : \A op \in {"onto_b", "over_b"} :
        Accepted(verb, op) =>
            /\ ~panic
            /\ Returned = UNION {AbovePivot(x) : x \in Pivots}
            /\ \A x \in Pivots :
                   /\ x \notin Returned
                   /\ Cardinality(AbovePivot(x)) =
                          Len(W0[StackOf(W0, x)]) - (PosOf(W0, x) - 1) - 1
            /\ \A x \in Returned : world[x + 1] = <<x>>

\* C31 witness: a move onto that returned one block from above A and one
\* from above B.
C31_Witness ==
    /\ Accepted("Move", "onto_b")
    /\ Cardinality(AbovePivot(BlockA)) = 1
    /\ Cardinality(AbovePivot(BlockB)) = 1
    /\ Cardinality(Returned) = 2

\* C32: home-block invariant -- in every world reachable from Blocks::new(N)
\* by public calls, every non-empty stack k has block k at its bottom;
\* equivalently, whenever block k is not in stack k, stack k is empty.
C32_HomeBlock ==
    inst = "Ok" =>
        /\ \A k \in 0..(Len(world) - 1) :
               world[k + 1] # <<>> => world[k + 1][1] = k
        /\ \A k \in 0..(elements - 1) :
               StackOf(world, k) # k + 1 => world[k + 1] = <<>>

\* C32 witness: an accepted operation has just returned a block to its
\* stack, while another stack is empty and a third holds three blocks.
C32_Witness ==
    /\ \E verb \in {"Move", "Pile"} : Accepted(verb, "onto_b")
    /\ Returned # {}
    /\ \E k \in 1..Len(world) : world[k] = <<>>
    /\ \E k \in 1..Len(world) : Len(world[k]) = 3

\* The stacks that the last operation may change: the stack that held A,
\* the stack that holds B, and the stacks of the numbers of the blocks
\* above its pivots, which it returns.
FrameOfLast ==
    {StackOf(W0, BlockA), StackOf(W0, BlockB)}
        \cup {x + 1 : x \in UNION {AbovePivot(y) : y \in Pivots}}

\* C33: an accepted move or pile changes only the stack that held A, the
\* stack that holds B and the home stacks of the blocks it returns; every
\* other stack is the same before and after the operation.
C33_Frame ==
    \A verb \in {"Move", "Pile"} : \A op \in {"onto_b", "over_b"} :
        Accepted(verb, op) =>
            /\ Len(world) = Len(W0)
            /\ \A i \in 1..Len(W0) : i \notin FrameOfLast => world[i] = W0[i]

\* C33 witness: an accepted operation returned a block and left a
\* non-empty stack outside its frame.
C33_Witness ==
    /\ \E verb \in {"Move", "Pile"} : \E op \in {"onto_b", "over_b"} :
           Accepted(verb, op)
    /\ Returned # {}
    /\ \E i \in 1..Len(W0) : i \notin FrameOfLast /\ W0[i] # <<>>

\* The Blocks on which the last completion ran its operation: the Blocks
\* before the call with the destination stored.
Pending == [last.pre EXCEPT !.b = Some(last.arg)]

\* The coordinates that the last operation computed for A and B before its
\* first mutation.
CoordA == where_is(Pending, AsI32(last.pre.a[1]))

CoordB == where_is(Pending, AsI32(last.arg))

\* The Blocks at the moment the last operation uses B's coordinates, when
\* it has mutated the world before: a move onto has unpiled above A and
\* popped A.
WhenBUsed ==
    LET s1 == PopHome(Pending, CoordA[1], UnpileCount(Pending, CoordA[1], CoordA[2]))
    IN  [s1 EXCEPT !.world = Pop(s1.world, CoordA[1])]

\* The Blocks at the moment the last operation uses A's coordinates, when
\* it has mutated the world before: a pile onto has unpiled above B.
WhenAUsed == PopHome(Pending, CoordB[1], UnpileCount(Pending, CoordB[1], CoordB[2]))

\* Coordinates c point at block x in world w.
PointsAt(w, c, x) ==
    /\ c[1] >= 0 /\ c[1] < Len(w)
    /\ c[2] >= 0 /\ c[2] < Len(w[c[1] + 1])
    /\ w[c[1] + 1][c[2] + 1] = x

\* C34: on a world created by Blocks::new(N) no sequence of public calls
\* with arbitrary u32 arguments panics (no stack index out of range, no pop
\* from an empty stack, no underflow of len() - 1); where_is never returns
\* (-1, -1) for a block that passed validation, and the positions of A and
\* B computed before the first mutation still point at A and B when they
\* are used.
C34_NoPanic ==
    /\ inst = "Ok" => ~panic
    /\ \A verb \in {"Move", "Pile"} : \A op \in {"onto_b", "over_b"} :
           (Completed(verb, op) /\ ~parameters_invalid(Pending)) =>
               /\ CoordA # <<-1, -1>> /\ PointsAt(W0, CoordA, BlockA)
               /\ CoordB # <<-1, -1>> /\ PointsAt(W0, CoordB, BlockB)
    /\ (Completed("Move", "onto_b") /\ ~parameters_invalid(Pending)) =>
           PointsAt(WhenBUsed.world, CoordB, BlockB)
    /\ (Completed("Pile", "onto_b") /\ ~parameters_invalid(Pending)) =>
           PointsAt(WhenAUsed.world, CoordA, BlockA)

\* C34 witness: a pile onto that passed validation unpiled above B before
\* it used the coordinates of A, which was not at the bottom of its stack.
C34_Witness ==
    /\ Completed("Pile", "onto_b")
    /\ ~parameters_invalid(Pending)
    /\ WhenAUsed.world # W0
    /\ CoordA[2] >= 1
    /\ world # W0

\* The Blocks after the command (verb x prep y) is issued on `self`: the
\* begin call, then the completion call.
Issue(self, verb, prep, x, y) ==
    LET begun == IF verb = "Move" THEN move_a(self, x) ELSE pile_a(self, x)
    IN  IF prep = "onto_b" THEN onto_b(begun, y) ELSE over_b(begun, y)

\* C35: after any accepted command (verb A preposition B), A and B are in
\* the same stack with A above B, and re-issuing at once the same command,
\* or any other command that names the same A and B, leaves the world
\* unchanged: applying a command twice equals applying it once.
C35_RepeatIsNoOp ==
    \A verb \in {"Move", "Pile"} : \A op \in {"onto_b", "over_b"} :
        Accepted(verb, op) =>
            /\ StackOf(world, BlockA) = StackOf(world, BlockB)
            /\ PosOf(world, BlockA) > PosOf(world, BlockB)
            /\ \A verb2 \in {"Move", "Pile"} : \A op2 \in {"onto_b", "over_b"} :
                   Issue(Self, verb2, op2, last.pre.a[1], last.arg) = Self

\* C35 witness: an accepted move over put A on a stack where another block
\* lies between B and A, so that a second command that was carried out
\* would change the world.
C35_Witness ==
    /\ Accepted("Move", "over_b")
    /\ Above(W0, BlockB) # <<>>
    /\ PosOf(world, BlockA) > PosOf(world, BlockB) + 1
    /\ world # W0

\* The line equals quit or q after trimming and lower-casing.
IsQuitWord(line) == to_lowercase(trim(line)) \in {q_, quit_}

\* A quit word read in the instruction loop ends the session after a dump.
QuitInLoop ==
    (last.op = "line" /\ pc # "failed" /\ IsQuitWord(input)) =>
        /\ pc = "done"
        /\ out = print(Self)
        /\ Self = last.pre

\* C36: a line that equals quit or q after trimming and lower-casing
\* (e.g. "Q", "QUIT") ends the session both when it is read at the setup
\* stage, with no world created, and when it is read in the instruction
\* loop, after a dump.
C36_QuitCaseInsensitive ==
    /\ (last.op = "setup" /\ pc # "failed" /\ IsQuitWord(input)) =>
           pc = "done" /\ inst = "None"
    /\ QuitInLoop

\* Robot::run has returned, with Ok or with the error of a read.
Returned_run == pc \in {"done", "failed"}

\* C37: for every finite input stream, including one that ends without a
\* quit line (after which every read returns an empty line), Robot::run
\* eventually returns, both when the input ends during the setup stage and
\* when it ends during the instruction loop.
C37_SessionTerminates == <>Returned_run

\* The running call of cycles has come back to a value of n that it has
\* had before.  The loop of cycles is a function of n alone, so from here
\* on it repeats itself and never reaches 1.
Revisits == \E p \in 1..Len(cycle_vec) : cycle_vec[p] = cycles_n

\* C38: for every pair (i, j) of unsigned integers, including pairs where
\* exactly one of i, j is 0, every cycles(n) call made by max_cycles
\* reaches 1 and max_cycles returns a result: no call of cycles comes back
\* to a value of n it has had, and none panics.  (n takes finitely many
\* values, so a call that never repeats a value ends.)
C38_MaxCyclesTerminates ==
    /\ pc = "cycles" => ~Revisits
    /\ pc # "panicked"

====
